---- MODULE Spec2Model ----
(***************************************************************************)
(* Model of the agent pool dispatchers of rig-extra:                       *)
(*   rig-extra/src/rand_agent.rs              RandAgent                    *)
(*   rig-extra/src/thread_safe_rand_agent.rs  ThreadSafeRandAgent          *)
(* A pool is a vector of entries behind one mutex.  Tasks call prompt /    *)
(* prompt_with_info concurrently; every await point of the code is a       *)
(* boundary between two actions of the model.                              *)
(***************************************************************************)
EXTENDS Naturals, Integers, Sequences, FiniteSets, TLC

VARIABLES
    variant,        \* which dispatcher type the pool belongs to
    agents,         \* Vec<AgentState>: the pool, in insertion order
    on_agent_invalid, \* whether a callback is installed (Some / None)
    lock,           \* the task holding the pool mutex, or NoTask
    pc,             \* per task: where it is inside its call
    op,             \* per task: the operation it is running
    agent_index,    \* per task: the local agent_index (0 while it has none)
    agent_info,     \* per task: prompt_with_info's clone of the entry's info
    answer,         \* per task: the handle's answer, ready but not yet taken
    calls,          \* number of calls started so far
    cb_count,       \* number of invocations of the on_agent_invalid callback
    cb_last,        \* argument of the latest callback invocation
    returned,       \* the latest call to end: task, operation, value returned,
                    \* entry used and its counter before the update
    retry           \* per task: the state of its retry driver (None without)

vars == <<variant, agents, on_agent_invalid, lock, pc, op, agent_index,
          agent_info, answer, calls, cb_count, cb_last, returned, retry>>

(***************************************************************************)
(* Bounds of the model.                                                    *)
(***************************************************************************)
NumTasks == 2
MaxCalls == 3
MaxAgents == 2
MaxCeiling == 1

\* the ceiling add_agent gives (rand_agent.rs:206, thread_safe_rand_agent.rs:117)
AddAgentMaxFailures == 3

Tasks == 1..NumTasks
NoTask == 0
\* Option<T>: None, Some(x)
None == <<>>
Some(x) == <<x>>

Ids == {1, 2}
Names == {<<"bigmodel", "glm-4-flash">>}
Ceilings == 0..MaxCeiling

\* the errors a handle's prompt can produce (variants of rig's PromptError)
HandleErrors == {[kind |-> "CompletionError"], [kind |-> "ToolError"]}

\* Strings of the source, as sequences of Unicode scalar values.
NoValidAgentText == <<27809, 26377, 26377, 25928, 97, 103, 101, 110, 116>>
EnglishNoValidAgentText ==
    <<110, 111, 32, 118, 97, 108, 105, 100, 32, 97, 103, 101, 110, 116>>

(***************************************************************************)
(* AgentState and its methods                                              *)
(***************************************************************************)
\* AgentState::new: the handle is identified by the position it is stored at
AgentState_new(handle, id, provider, model, max_failures) ==
    [id |-> id, agent |-> handle,
     info |-> [id |-> id, provider |-> provider, model |-> model,
               failure_count |-> 0, max_failures |-> max_failures]]

\* mutant: an entry at its ceiling still counts as valid
is_valid_inclusive(state) ==
    state.info.failure_count <= state.info.max_failures

is_valid(state) == state.info.failure_count < state.info.max_failures

\* mutant: the increment starts from 0 instead of the current count, as a
\* write of a stale read would
record_failure_lost_update(state) ==
    [state EXCEPT !.info.failure_count = 1]

record_failure(state) ==
    [state EXCEPT !.info.failure_count = state.info.failure_count + 1]

\* mutant: a success leaves the counter as it is
record_success_keeps_count(state) == state

\* mutant: a success gives the entry a fresh info with the default ceiling
record_success_fresh_info(state) ==
    [state EXCEPT !.info.failure_count = 0,
                  !.info.max_failures = AddAgentMaxFailures]

record_success(state) == [state EXCEPT !.info.failure_count = 0]

(***************************************************************************)
(* RandAgent: construction                                                 *)
(***************************************************************************)
RECURSIVE BuildStates(_, _, _)
BuildStates(list, max_failures, k) ==
    IF k > Len(list) THEN <<>>
    ELSE <<AgentState_new(k, list[k][1], list[k][2], list[k][3], max_failures)>>
         \o BuildStates(list, max_failures, k + 1)

\* RandAgent::with_max_failures_and_callback
with_max_failures_and_callback(list, max_failures) ==
    BuildStates(list, max_failures, 1)

\* the (id, provider, model) lists a builder can hold
BuilderLists ==
    UNION {[1..n -> {<<i, nm[1], nm[2]>> : i \in Ids, nm \in Names}] :
           n \in 0..MaxAgents}

(***************************************************************************)
(* RandAgent: pool queries                                                 *)
(***************************************************************************)
valid_indices(pool) == {i \in 1..Len(pool) : is_valid(pool[i])}

\* mutant: the choice is made among all entries, valid or not
get_random_agent_index(pool) ==
    IF Len(pool) = 0 THEN {None} ELSE {Some(i) : i \in 1..Len(pool)}

\* get_random_valid_agent_index: the set of values the call can return
get_random_valid_agent_index(pool) ==
    IF valid_indices(pool) = {} THEN {None}
    ELSE {Some(i) : i \in valid_indices(pool)}

\* mutant: the error reports a depth of 1
NoValidAgentError_depth_one ==
    [kind |-> "MaxDepthError", max_depth |-> 1, chat_history |-> <<>>,
     prompt |-> NoValidAgentText]

\* the error prompt returns when the selection returned None
NoValidAgentError ==
    [kind |-> "MaxDepthError", max_depth |-> 0, chat_history |-> <<>>,
     prompt |-> NoValidAgentText]

Ok(content) == [kind |-> "Ok", content |-> content]
OkInfo(content, info) == [kind |-> "Ok", content |-> content, info |-> info]
Err(e) == [kind |-> "Err", err |-> e]
NoAnswer == [kind |-> "None"]
\* the future was dropped while the task was at `at`: the caller gets no value
Dropped(at) == [kind |-> "Dropped", at |-> at]
\* the record of a call that ended
Returned(t, o, value, index, before) ==
    Some([task |-> t, op |-> o, value |-> value, index |-> index,
          before |-> before])

\* what the handle stored at `handle` answers on success
Content(handle) == <<"ok", handle>>

(***************************************************************************)
(* Initial state: a RandAgent as RandAgentBuilder::build returns it        *)
(***************************************************************************)
InitTasks ==
    /\ lock = NoTask
    /\ pc = [t \in Tasks |-> "idle"]
    /\ op = [t \in Tasks |-> "none"]
    /\ agent_index = [t \in Tasks |-> 0]
    /\ agent_info = [t \in Tasks |-> None]
    /\ answer = [t \in Tasks |-> NoAnswer]
    /\ calls = 0
    /\ cb_count = 0
    /\ cb_last = None
    /\ returned = None
    /\ retry = [t \in Tasks |-> None]

Init ==
    /\ variant = "RandAgent"
    /\ \E list \in BuilderLists, m \in Ceilings :
          agents = with_max_failures_and_callback(list, m)
    /\ on_agent_invalid \in BOOLEAN
    /\ InitTasks

(***************************************************************************)
(* RandAgent::prompt and RandAgent::prompt_with_info                       *)
(***************************************************************************)
\* first await of operation o: get_random_valid_agent_index takes the lock,
\* selects, and releases the lock when it returns; None is turned into the
\* error by `?`
select(t, o) ==
    /\ variant = "RandAgent"
    /\ pc[t] = "idle"
    /\ lock = NoTask
    /\ \E sel \in get_random_valid_agent_index(agents) :
          IF sel = None
          THEN /\ returned' = Returned(t, o, Err(NoValidAgentError), 0, 0)
               /\ UNCHANGED <<pc, op, agent_index>>
          ELSE /\ agent_index' = [agent_index EXCEPT ![t] = sel[1]]
               /\ op' = [op EXCEPT ![t] = o]
               /\ pc' = [pc EXCEPT ![t] = "selected"]
               /\ UNCHANGED returned
    /\ UNCHANGED <<variant, agents, on_agent_invalid, lock, agent_info,
                   answer, cb_count, cb_last>>

\* a task calls prompt or prompt_with_info: the call runs to its first await
prompt_select(t) ==
    /\ calls < MaxCalls
    /\ retry[t] = None
    /\ calls' = calls + 1
    /\ \E o \in {"prompt", "prompt_with_info"} : select(t, o)
    /\ UNCHANGED retry

\* second await: self.agents.lock().await; the guard `agents` lives until the
\* function returns, so the handle's prompt is awaited with the lock held
prompt_lock(t) ==
    /\ variant = "RandAgent"
    /\ pc[t] = "selected"
    /\ lock = NoTask
    /\ lock' = t
    /\ pc' = [pc EXCEPT ![t] = "awaiting"]
    /\ agent_info' = [agent_info EXCEPT ![t] =
          IF op[t] = "prompt_with_info"
          THEN Some(agents[agent_index[t]].info) ELSE None]
    /\ UNCHANGED <<retry, variant, agents, on_agent_invalid, op, agent_index, answer,
                   calls, cb_count, cb_last, returned>>

\* mutant: prompt_with_info returns the text alone
prompt_return_without_info(o, ans, info) == ans

\* mutant: the returned info carries the counter after record_success
prompt_return_info_after_update(o, ans, info) ==
    IF ans.kind = "Ok" /\ o = "prompt_with_info"
    THEN OkInfo(ans.content, [info[1] EXCEPT !.failure_count = 0])
    ELSE ans

\* the value prompt returns for the handle's answer
prompt_return(o, ans, info) ==
    IF ans.kind = "Ok" /\ o = "prompt_with_info"
    THEN OkInfo(ans.content, info[1])
    ELSE ans

\* mutant: the callback is called for every failure
fires_callback_on_every_failure(state) == on_agent_invalid

\* whether the Err arm calls the callback for the updated entry
fires_callback(state) == ~is_valid(state) /\ on_agent_invalid

\* the entry after the match on the handle's answer
updated_state(state, ans) ==
    IF ans.kind = "Ok" THEN record_success(state) ELSE record_failure(state)

\* the handle stored at `handle` answers: the awaited future becomes ready
handle_answers(handle) ==
    {Ok(Content(handle))} \cup {Err(e) : e \in HandleErrors}

handle_respond(t) ==
    /\ pc[t] = "awaiting"
    /\ answer[t] = NoAnswer
    /\ \E a \in handle_answers(agents[agent_index[t]].agent) :
          answer' = [answer EXCEPT ![t] = a]
    /\ UNCHANGED <<retry, variant, agents, on_agent_invalid, lock, pc, op,
                   agent_index, agent_info, calls, cb_count, cb_last, returned>>

\* mutant: the callback is called after the guard is dropped
finish_callback_after_unlock(t) ==
    /\ variant = "RandAgent"
    /\ \/ /\ pc[t] = "awaiting"
          /\ lock = t
          /\ answer[t] # NoAnswer
          /\ LET i == agent_index[t]
                 new == updated_state(agents[i], answer[t])
                 fired == answer[t].kind = "Err" /\ fires_callback(new)
             IN /\ agents' = [agents EXCEPT ![i] = new]
                /\ pc' = [pc EXCEPT ![t] = IF fired THEN "notifying"
                                           ELSE "idle"]
                /\ returned' = Returned(t, op[t],
                                prompt_return(op[t], answer[t], agent_info[t]),
                                i, agents[i].info.failure_count)
          /\ lock' = NoTask
          /\ answer' = [answer EXCEPT ![t] = NoAnswer]
          /\ UNCHANGED <<cb_count, cb_last, agent_index, agent_info, op>>
       \/ /\ pc[t] = "notifying"
          /\ cb_count' = cb_count + 1
          /\ cb_last' = Some(agents[agent_index[t]].id)
          /\ pc' = [pc EXCEPT ![t] = "idle"]
          /\ agent_index' = [agent_index EXCEPT ![t] = 0]
          /\ agent_info' = [agent_info EXCEPT ![t] = None]
          /\ op' = [op EXCEPT ![t] = "none"]
          /\ UNCHANGED <<agents, lock, answer, returned>>
    /\ UNCHANGED <<variant, on_agent_invalid, calls>>

\* third await completes: the match on the handle's answer updates the
\* counter, the Err arm calls the callback, and the guard is dropped on return
finish(t) ==
    /\ variant = "RandAgent"
    /\ pc[t] = "awaiting"
    /\ lock = t
    /\ answer[t] # NoAnswer
    /\ LET i == agent_index[t]
           state == agents[i]
           new == updated_state(state, answer[t])
           fired == answer[t].kind = "Err" /\ fires_callback(new)
       IN /\ agents' = [agents EXCEPT ![i] = new]
          /\ cb_count' = IF fired THEN cb_count + 1 ELSE cb_count
          /\ cb_last' = IF fired THEN Some(new.id) ELSE cb_last
          /\ returned' = Returned(t, op[t],
                          prompt_return(op[t], answer[t], agent_info[t]),
                          i, state.info.failure_count)
    /\ lock' = NoTask
    /\ pc' = [pc EXCEPT ![t] = "idle"]
    /\ agent_index' = [agent_index EXCEPT ![t] = 0]
    /\ agent_info' = [agent_info EXCEPT ![t] = None]
    /\ answer' = [answer EXCEPT ![t] = NoAnswer]
    /\ op' = [op EXCEPT ![t] = "none"]
    /\ UNCHANGED <<variant, on_agent_invalid, calls>>

\* the call made by the task itself returns to the task
prompt_finish(t) ==
    /\ retry[t] = None
    /\ finish(t)
    /\ UNCHANGED retry

\* mutant: a dropped call is counted as a failure of its entry
prompt_drop_records_failure(t) ==
    /\ variant = "RandAgent"
    /\ pc[t] \in {"selected", "awaiting"}
    /\ agents' = [agents EXCEPT ![agent_index[t]] = record_failure(@)]
    /\ lock' = IF lock = t THEN NoTask ELSE lock
    /\ pc' = [pc EXCEPT ![t] = "idle"]
    /\ agent_index' = [agent_index EXCEPT ![t] = 0]
    /\ agent_info' = [agent_info EXCEPT ![t] = None]
    /\ answer' = [answer EXCEPT ![t] = NoAnswer]
    /\ op' = [op EXCEPT ![t] = "none"]
    /\ returned' = Returned(t, op[t], Dropped(pc[t]), agent_index[t],
                            agents[agent_index[t]].info.failure_count)
    /\ UNCHANGED <<retry, variant, on_agent_invalid, calls, cb_count, cb_last>>

\* the caller drops the future at an await point: locals (the guard
\* included) are dropped and nothing after the await runs
prompt_drop(t) ==
    /\ variant = "RandAgent"
    /\ pc[t] \in {"selected", "awaiting"}
    /\ lock' = IF lock = t THEN NoTask ELSE lock
    /\ pc' = [pc EXCEPT ![t] = "idle"]
    /\ agent_index' = [agent_index EXCEPT ![t] = 0]
    /\ agent_info' = [agent_info EXCEPT ![t] = None]
    /\ answer' = [answer EXCEPT ![t] = NoAnswer]
    /\ op' = [op EXCEPT ![t] = "none"]
    /\ returned' = Returned(t, op[t], Dropped(pc[t]), agent_index[t],
                            agents[agent_index[t]].info.failure_count)
    /\ UNCHANGED <<retry, variant, agents, on_agent_invalid, calls, cb_count,
                   cb_last>>

(***************************************************************************)
(* RandAgent: pool management                                              *)
(***************************************************************************)
\* mutant: the new entry is inserted in front of the others
add_agent_with_max_failures_in_front(id, provider, model, max_failures) ==
    /\ variant = "RandAgent"
    /\ lock = NoTask
    /\ Len(agents) < MaxAgents
    /\ agents' = <<AgentState_new(Len(agents) + 1, id, provider, model,
                                  max_failures)>> \o agents
    /\ UNCHANGED <<retry, variant, on_agent_invalid, lock, pc, op, agent_index,
                   agent_info, answer, calls, cb_count, cb_last, returned>>

add_agent_with_max_failures(id, provider, model, max_failures) ==
    /\ variant = "RandAgent"
    /\ lock = NoTask
    /\ Len(agents) < MaxAgents
    /\ agents' = Append(agents, AgentState_new(Len(agents) + 1, id, provider,
                                               model, max_failures))
    /\ UNCHANGED <<retry, variant, on_agent_invalid, lock, pc, op, agent_index,
                   agent_info, answer, calls, cb_count, cb_last, returned>>

\* mutant: the entry gets the ceiling of the pool's first entry
add_agent_with_pool_ceiling(id, provider, model) ==
    add_agent_with_max_failures(id, provider, model,
        IF Len(agents) > 0 THEN agents[1].info.max_failures
        ELSE AddAgentMaxFailures)

add_agent(id, provider, model) ==
    add_agent_with_max_failures(id, provider, model, AddAgentMaxFailures)

\* mutant: only the entries that are invalid are reset
reset_all_invalid_only(pool) ==
    [i \in 1..Len(pool) |->
        IF is_valid(pool[i]) THEN pool[i]
        ELSE [pool[i] EXCEPT !.info.failure_count = 0]]

reset_all(pool) ==
    [i \in 1..Len(pool) |-> [pool[i] EXCEPT !.info.failure_count = 0]]

reset_failures ==
    /\ variant = "RandAgent"
    /\ lock = NoTask
    /\ agents' = reset_all(agents)
    /\ UNCHANGED <<retry, variant, on_agent_invalid, lock, pc, op, agent_index,
                   agent_info, answer, calls, cb_count, cb_last, returned>>

failure_stats(pool) ==
    [i \in 1..Len(pool) |->
        <<i, pool[i].info.failure_count, pool[i].info.max_failures>>]

get_agents_info(pool) == [i \in 1..Len(pool) |-> pool[i].info]

Next ==
    \/ \E t \in Tasks : prompt_select(t)
    \/ \E t \in Tasks : prompt_lock(t)
    \/ \E t \in Tasks : handle_respond(t)
    \/ \E t \in Tasks : prompt_finish(t)
    \/ \E t \in Tasks : prompt_drop(t)
    \/ \E id \in Ids, nm \in Names : add_agent(id, nm[1], nm[2])
    \/ \E id \in Ids, nm \in Names, m \in Ceilings :
          add_agent_with_max_failures(id, nm[1], nm[2], m)
    \/ reset_failures

Spec == Init /\ [][Next]_vars

(***************************************************************************)
(* ThreadSafeRandAgent (thread_safe_rand_agent.rs): the pool sits behind a *)
(* std::sync::Mutex, every critical section is a block without an await,   *)
(* so each one is one step and the lock is never seen held.                *)
(***************************************************************************)
ThreadSafeAgentState_new(handle, provider, model, max_failures) ==
    [agent |-> handle, provider |-> provider, model |-> model,
     failure_count |-> 0, max_failures |-> max_failures]

ts_is_valid(state) == state.failure_count < state.max_failures

\* mutant: the counter stops at the ceiling
ts_record_failure_saturating(state) ==
    IF state.failure_count < state.max_failures
    THEN [state EXCEPT !.failure_count = state.failure_count + 1]
    ELSE state

ts_record_failure(state) ==
    [state EXCEPT !.failure_count = state.failure_count + 1]

ts_record_success(state) == [state EXCEPT !.failure_count = 0]

RECURSIVE ts_BuildStates(_, _, _)
ts_BuildStates(list, max_failures, k) ==
    IF k > Len(list) THEN <<>>
    ELSE <<ThreadSafeAgentState_new(k, list[k][1], list[k][2], max_failures)>>
         \o ts_BuildStates(list, max_failures, k + 1)

\* ThreadSafeRandAgent::with_max_failures
ts_with_max_failures(list, max_failures) ==
    ts_BuildStates(list, max_failures, 1)

ts_BuilderLists == UNION {[1..n -> Names] : n \in 0..MaxAgents}

ts_valid_indices(pool) == {i \in 1..Len(pool) : ts_is_valid(pool[i])}

\* RandAgentError
NoValidAgents == [kind |-> "NoValidAgents"]
AgentError(e) == [kind |-> "AgentError", source |-> e]

\* .map_err(|e| RandAgentError::AgentError(Box::new(e)))
ts_map_err(ans) ==
    IF ans.kind = "Err" THEN Err(AgentError(ans.err)) ELSE ans

TSInit ==
    /\ variant = "ThreadSafeRandAgent"
    /\ \E list \in ts_BuilderLists, m \in Ceilings :
          agents = ts_with_max_failures(list, m)
    /\ on_agent_invalid = FALSE
    /\ InitTasks

\* first block of prompt: select under the lock, or return NoValidAgents
ts_prompt_select(t) ==
    /\ variant = "ThreadSafeRandAgent"
    /\ pc[t] = "idle"
    /\ calls < MaxCalls
    /\ calls' = calls + 1
    /\ IF ts_valid_indices(agents) = {}
       THEN /\ returned' = Returned(t, "prompt", Err(NoValidAgents), 0, 0)
            /\ UNCHANGED <<pc, op, agent_index>>
       ELSE /\ \E i \in ts_valid_indices(agents) :
                  agent_index' = [agent_index EXCEPT ![t] = i]
            /\ op' = [op EXCEPT ![t] = "prompt"]
            /\ pc' = [pc EXCEPT ![t] = "selected"]
            /\ UNCHANGED returned
    /\ UNCHANGED <<retry, variant, agents, on_agent_invalid, lock, agent_info,
                   answer, cb_count, cb_last>>

\* second block: clone the handle's Arc under the lock, then call the handle
\* mutant: the guard of the second block lives on across the handle call
ts_prompt_clone_keeps_guard(t) ==
    /\ variant = "ThreadSafeRandAgent"
    /\ pc[t] = "selected"
    /\ lock = NoTask
    /\ lock' = t
    /\ pc' = [pc EXCEPT ![t] = "awaiting"]
    /\ UNCHANGED <<retry, variant, agents, on_agent_invalid, op, agent_index,
                   agent_info, answer, calls, cb_count, cb_last, returned>>

ts_prompt_clone(t) ==
    /\ variant = "ThreadSafeRandAgent"
    /\ pc[t] = "selected"
    /\ pc' = [pc EXCEPT ![t] = "awaiting"]
    /\ UNCHANGED <<retry, variant, agents, on_agent_invalid, lock, op, agent_index,
                   agent_info, answer, calls, cb_count, cb_last, returned>>

\* the handle answered: map_err, then the third block updates the counter
ts_prompt_finish(t) ==
    /\ variant = "ThreadSafeRandAgent"
    /\ pc[t] = "awaiting"
    /\ answer[t] # NoAnswer
    /\ LET i == agent_index[t]
           res == ts_map_err(answer[t])
       IN /\ agents' = [agents EXCEPT ![i] =
                           IF res.kind = "Ok" THEN ts_record_success(@)
                           ELSE ts_record_failure(@)]
          /\ returned' = Returned(t, op[t], res, i, agents[i].failure_count)
    /\ pc' = [pc EXCEPT ![t] = "idle"]
    /\ agent_index' = [agent_index EXCEPT ![t] = 0]
    /\ answer' = [answer EXCEPT ![t] = NoAnswer]
    /\ op' = [op EXCEPT ![t] = "none"]
    /\ UNCHANGED <<retry, variant, on_agent_invalid, lock, agent_info, calls,
                   cb_count, cb_last>>

\* the future is dropped at its only await point, the handle call
ts_prompt_drop(t) ==
    /\ variant = "ThreadSafeRandAgent"
    /\ pc[t] = "awaiting"
    /\ pc' = [pc EXCEPT ![t] = "idle"]
    /\ agent_index' = [agent_index EXCEPT ![t] = 0]
    /\ answer' = [answer EXCEPT ![t] = NoAnswer]
    /\ op' = [op EXCEPT ![t] = "none"]
    /\ returned' = Returned(t, op[t], Dropped(pc[t]), agent_index[t],
                            agents[agent_index[t]].failure_count)
    /\ UNCHANGED <<retry, variant, agents, on_agent_invalid, lock, agent_info,
                   calls, cb_count, cb_last>>

ts_add_agent_with_max_failures(provider, model, max_failures) ==
    /\ variant = "ThreadSafeRandAgent"
    /\ Len(agents) < MaxAgents
    /\ agents' = Append(agents, ThreadSafeAgentState_new(
                            Len(agents) + 1, provider, model, max_failures))
    /\ UNCHANGED <<retry, variant, on_agent_invalid, lock, pc, op, agent_index,
                   agent_info, answer, calls, cb_count, cb_last, returned>>

ts_add_agent(provider, model) ==
    ts_add_agent_with_max_failures(provider, model, AddAgentMaxFailures)

ts_reset_all(pool) ==
    [i \in 1..Len(pool) |-> [pool[i] EXCEPT !.failure_count = 0]]

ts_reset_failures ==
    /\ variant = "ThreadSafeRandAgent"
    /\ agents' = ts_reset_all(agents)
    /\ UNCHANGED <<retry, variant, on_agent_invalid, lock, pc, op, agent_index,
                   agent_info, answer, calls, cb_count, cb_last, returned>>

ts_failure_stats(pool) ==
    [i \in 1..Len(pool) |->
        <<i, pool[i].failure_count, pool[i].max_failures>>]

TSNext ==
    \/ \E t \in Tasks : ts_prompt_select(t)
    \/ \E t \in Tasks : ts_prompt_clone(t)
    \/ \E t \in Tasks : handle_respond(t)
    \/ \E t \in Tasks : ts_prompt_finish(t)
    \/ \E t \in Tasks : ts_prompt_drop(t)
    \/ \E nm \in Names : ts_add_agent(nm[1], nm[2])
    \/ \E nm \in Names, m \in Ceilings :
          ts_add_agent_with_max_failures(nm[1], nm[2], m)
    \/ ts_reset_failures

SpecTS == TSInit /\ [][TSNext]_vars

\* either dispatcher
SpecAll == (Init \/ TSInit) /\ [][Next \/ TSNext]_vars

(***************************************************************************)
(* RandAgent: the pool-management operations as calls of a task.  Each one *)
(* awaits self.agents.lock() and then runs one critical section without    *)
(* an await in it.                                                         *)
(***************************************************************************)
\* mutant: every entry is counted
len_counts_all(pool) == Len(pool)

len(pool) == Cardinality(valid_indices(pool))
total_len(pool) == Len(pool)
is_empty(pool) == len(pool) = 0

\* mutant: the provider alone decides the match
find_by_provider(pool, provider_name, model_name, k) ==
    LET m == {i \in k..Len(pool) : pool[i].info.provider = provider_name}
    IN IF m = {} THEN None
       ELSE Some(pool[CHOOSE i \in m : \A j \in m : i <= j])

RECURSIVE find_by_name(_, _, _, _)
find_by_name(pool, provider_name, model_name, k) ==
    IF k > Len(pool) THEN None
    ELSE IF /\ pool[k].info.provider = provider_name
            /\ pool[k].info.model = model_name
         THEN Some(pool[k])
         ELSE find_by_name(pool, provider_name, model_name, k + 1)

\* get_agent_by_name: the loop returns a clone of the first entry that matches
get_agent_by_name(pool, provider_name, model_name) ==
    find_by_name(pool, provider_name, model_name, 1)

\* mutant: the latest-inserted match is returned
find_by_id_last(pool, id, k) ==
    LET m == {i \in k..Len(pool) : pool[i].info.id = id}
    IN IF m = {} THEN None
       ELSE Some(pool[CHOOSE i \in m : \A j \in m : i >= j])

RECURSIVE find_by_id(_, _, _)
find_by_id(pool, id, k) ==
    IF k > Len(pool) THEN None
    ELSE IF pool[k].info.id = id THEN Some(pool[k])
         ELSE find_by_id(pool, id, k + 1)

\* get_agent_by_id: the loop returns a clone of the first entry that matches
get_agent_by_id(pool, id) == find_by_id(pool, id, 1)

PoolOps ==
    {"len", "total_len", "is_empty", "failure_stats", "get_agents_info",
     "reset_failures", "add_agent", "get_agent_by_id", "get_agent_by_name"}

\* the value a pool operation returns, with the arguments it was called with
Value(args, v) == [kind |-> "Value", args |-> args, value |-> v]

pool_result(o, pool, id, nm) ==
    CASE o = "len" -> Value(<<>>, len(pool))
      [] o = "total_len" -> Value(<<>>, total_len(pool))
      [] o = "is_empty" -> Value(<<>>, is_empty(pool))
      [] o = "failure_stats" -> Value(<<>>, failure_stats(pool))
      [] o = "get_agents_info" -> Value(<<>>, get_agents_info(pool))
      [] o = "reset_failures" -> Value(<<>>, <<>>)
      [] o = "add_agent" -> Value(<<id, nm[1], nm[2]>>, <<>>)
      [] o = "get_agent_by_id" -> Value(<<id>>, get_agent_by_id(pool, id))
      [] o = "get_agent_by_name" ->
            Value(nm, get_agent_by_name(pool, nm[1], nm[2]))

\* the pool after the critical section of operation o
pool_after(o, pool, id, nm) ==
    CASE o = "reset_failures" -> reset_all(pool)
      [] o = "add_agent" ->
            Append(pool, AgentState_new(Len(pool) + 1, id, nm[1], nm[2],
                                        AddAgentMaxFailures))
      [] OTHER -> pool

\* a task calls a pool operation: it reaches self.agents.lock().await
pool_call(t) ==
    /\ variant = "RandAgent"
    /\ pc[t] = "idle"
    /\ retry[t] = None
    /\ calls < MaxCalls
    /\ calls' = calls + 1
    /\ \E o \in PoolOps :
          /\ o = "add_agent" => Len(agents) < MaxAgents
          /\ op' = [op EXCEPT ![t] = o]
    /\ pc' = [pc EXCEPT ![t] = "locking"]
    /\ UNCHANGED <<retry, variant, agents, on_agent_invalid, lock,
                   agent_index, agent_info, answer, cb_count, cb_last,
                   returned>>

\* the lock is granted: the critical section runs and the operation returns
pool_run_with(t, ids, names) ==
    /\ variant = "RandAgent"
    /\ pc[t] = "locking"
    /\ lock = NoTask
    /\ \E id \in ids, nm \in names :
          /\ agents' = pool_after(op[t], agents, id, nm)
          /\ returned' = Returned(t, op[t],
                                  pool_result(op[t], agents, id, nm), 0, 0)
    /\ pc' = [pc EXCEPT ![t] = "idle"]
    /\ op' = [op EXCEPT ![t] = "none"]
    /\ UNCHANGED <<retry, variant, on_agent_invalid, lock, agent_index,
                   agent_info, answer, calls, cb_count, cb_last>>

pool_run(t) == pool_run_with(t, Ids, Names)

PoolInit ==
    /\ variant = "RandAgent"
    /\ \E list \in BuilderLists :
          agents = with_max_failures_and_callback(list, MaxCeiling)
    /\ on_agent_invalid = FALSE
    /\ InitTasks

PoolNext ==
    \/ \E t \in Tasks : prompt_select(t)
    \/ \E t \in Tasks : prompt_lock(t)
    \/ \E t \in Tasks : handle_respond(t)
    \/ \E t \in Tasks : prompt_finish(t)
    \/ \E t \in Tasks : pool_call(t)
    \/ \E t \in Tasks : pool_run(t)

\* The runtime polls a task that is ready, and tokio's Mutex hands the lock
\* to its waiters in the order they arrived: a task whose handle answered
\* returns, and a task waiting for the lock gets it if the lock keeps being
\* released.  Nothing makes a handle answer or a caller call.
PoolFairness ==
    \A t \in Tasks :
        /\ WF_vars(prompt_finish(t))
        /\ SF_vars(prompt_lock(t))
        /\ SF_vars(pool_run(t))

SpecPool == PoolInit /\ [][PoolNext]_vars /\ PoolFairness

(***************************************************************************)
(* RandAgent: lookups on pools whose entries differ in provider and model  *)
(* and may share an id.                                                    *)
(***************************************************************************)
LookupNames ==
    {<<"bigmodel", "glm-4-flash">>, <<"bigmodel", "gpt-4o">>,
     <<"openai", "glm-4-flash">>, <<"openai", "gpt-4o">>}

LookupLists ==
    UNION {[1..n -> {<<i, nm[1], nm[2]>> : i \in Ids, nm \in LookupNames}] :
           n \in 0..MaxAgents}

LookupInit ==
    /\ variant = "RandAgent"
    /\ \E list \in LookupLists, m \in Ceilings :
          agents = with_max_failures_and_callback(list, m)
    /\ on_agent_invalid = FALSE
    /\ InitTasks

MaxLookups == 1
LookupOps == {"get_agent_by_id", "get_agent_by_name"}

\* a task calls get_agent_by_id or get_agent_by_name
lookup_call(t) ==
    /\ calls < MaxLookups
    /\ pool_call(t)
    /\ op'[t] \in LookupOps

lookup_run(t) == pool_run_with(t, Ids, LookupNames)

LookupNext ==
    \/ \E t \in Tasks : lookup_call(t)
    \/ \E t \in Tasks : lookup_run(t)
    \/ \E id \in Ids, nm \in LookupNames, m \in Ceilings :
          add_agent_with_max_failures(id, nm[1], nm[2], m)

SpecLookup == LookupInit /\ [][LookupNext]_vars

(***************************************************************************)
(* RandAgent::try_invoke_with_retry and try_invoke_with_info_retry: the    *)
(* closure calls prompt / prompt_with_info on a clone of the dispatcher,   *)
(* and backon's Retry drives it: call the closure; on Ok return; on Err    *)
(* ask the backoff for the next delay, return the error when it has none,  *)
(* else notify, sleep and call the closure again.                          *)
(***************************************************************************)
\* ExponentialBuilder::default(): max_times is 3
DefaultMaxTimes == 3
\* its other defaults: min_delay 1 s, factor 2, max_delay 60 s
MinDelay == 1
Factor == 2
MaxDelay == 60
MaxRetryNum == 1
MaxRetryCalls == 1
RetryNums == {None} \cup {Some(n) : n \in 0..MaxRetryNum}

\* config.with_max_times(retry_num) when retry_num is Some
max_times(retry_num) ==
    IF retry_num = None THEN DefaultMaxTimes ELSE retry_num[1]

\* the operation the closure of a retry operation calls
closure_op(o) ==
    IF o = "try_invoke_with_retry" THEN "prompt" ELSE "prompt_with_info"

\* the driver of one call: the backoff's cap, count of delays handed out and
\* current delay, the number of closure calls made, the result of the closure
\* call that ended last and is not yet acted upon; for the properties, the
\* argument of the call, the number of notifications printed and the entries
\* that became invalid in an attempt of this call
Retry_new(o, retry_num) ==
    Some([op |-> o, retry_num |-> retry_num,
          max_times |-> max_times(retry_num), attempts |-> 0,
          current_delay |-> None, tries |-> 0, last |-> NoAnswer,
          notified |-> 0, invalidated |-> {}])

\* mutant: the backoff hands out no delay after the no-valid-agents error
backoff_next_stops_on_no_valid_agent(r) ==
    IF r.attempts >= r.max_times \/ r.last = Err(NoValidAgentError)
    THEN None ELSE Some(r.attempts + 1)

\* mutant: the backoff allows one delay more than max_times
backoff_next_one_more(r) ==
    IF r.attempts > r.max_times THEN None ELSE Some(r.attempts + 1)

\* ExponentialBackoff::next: None once max_times delays were handed out
backoff_next(r) ==
    IF r.attempts >= r.max_times THEN None ELSE Some(r.attempts + 1)

\* mutant: every delay is min_delay
backoff_delay_constant(r) == MinDelay

\* the delay ExponentialBackoff::next hands out, in seconds: min_delay first,
\* then factor times the previous delay, capped at max_delay; no jitter
backoff_delay(r) ==
    IF r.current_delay = None THEN MinDelay
    ELSE IF r.current_delay[1] * Factor < MaxDelay
         THEN r.current_delay[1] * Factor
         ELSE MaxDelay

\* mutant: the error is returned as NoValidAgents
retry_result_no_valid_agents(last) ==
    IF last.kind = "Ok" THEN last ELSE Err(NoValidAgents)

\* `.await?` and Ok(content): an error becomes a RandAgentError
retry_result(last) ==
    IF last.kind = "Ok" THEN last ELSE Err(AgentError(last.err))

\* a task calls try_invoke_with_retry / try_invoke_with_info_retry: the
\* driver is built; nothing runs before it is polled
try_invoke_with(t, retry_nums) ==
    /\ variant = "RandAgent"
    /\ pc[t] = "idle"
    /\ retry[t] = None
    /\ calls < MaxRetryCalls
    /\ calls' = calls + 1
    /\ \E o \in {"try_invoke_with_retry", "try_invoke_with_info_retry"},
          retry_num \in retry_nums :
          retry' = [retry EXCEPT ![t] = Retry_new(o, retry_num)]
    /\ UNCHANGED <<variant, agents, on_agent_invalid, lock, pc, op,
                   agent_index, agent_info, answer, cb_count, cb_last,
                   returned>>

try_invoke_start(t) == try_invoke_with(t, RetryNums)

\* the driver calls the closure: prompt runs to its first await; when the
\* selection finds no valid entry the closure call ends here with the error
retry_select(t) ==
    /\ retry[t] # None
    /\ retry[t][1].last = NoAnswer
    /\ select(t, closure_op(retry[t][1].op))
    /\ retry' = [retry EXCEPT ![t] =
          Some([retry[t][1] EXCEPT
                   !.tries = @ + 1,
                   !.last = IF pc'[t] = "idle" THEN returned'[1].value
                            ELSE NoAnswer])]
    /\ UNCHANGED calls

\* the closure's call of prompt returns to the driver
retry_finish(t) ==
    /\ retry[t] # None
    /\ finish(t)
    /\ retry' = [retry EXCEPT ![t] =
          Some([retry[t][1] EXCEPT
                   !.last = returned'[1].value,
                   !.invalidated =
                       IF /\ is_valid(agents[agent_index[t]])
                          /\ ~is_valid(agents'[agent_index[t]])
                       THEN @ \cup {agent_index[t]} ELSE @])]

\* the closure returned Err and the backoff has a delay: notify, sleep, and
\* the driver is ready to call the closure again
retry_backoff(t) ==
    /\ retry[t] # None
    /\ retry[t][1].last.kind = "Err"
    /\ backoff_next(retry[t][1]) # None
    /\ retry' = [retry EXCEPT ![t] =
          Some([retry[t][1] EXCEPT
                   !.attempts = backoff_next(retry[t][1])[1],
                   !.current_delay = Some(backoff_delay(retry[t][1])),
                   !.notified = @ + 1,
                   !.last = NoAnswer])]
    /\ UNCHANGED <<variant, agents, on_agent_invalid, lock, pc, op,
                   agent_index, agent_info, answer, calls, cb_count, cb_last,
                   returned>>

\* the closure returned Ok, or Err with the backoff exhausted: the driver
\* returns and the operation returns its value
retry_return(t) ==
    /\ retry[t] # None
    /\ \/ retry[t][1].last.kind = "Ok"
       \/ /\ retry[t][1].last.kind = "Err"
          /\ backoff_next(retry[t][1]) = None
    /\ returned' = Returned(t, retry[t][1].op,
                            retry_result(retry[t][1].last), 0, 0)
    /\ retry' = [retry EXCEPT ![t] = None]
    /\ UNCHANGED <<variant, agents, on_agent_invalid, lock, pc, op,
                   agent_index, agent_info, answer, calls, cb_count, cb_last>>

RetryInit ==
    /\ variant = "RandAgent"
    /\ \E list \in BuilderLists :
          agents = with_max_failures_and_callback(list, MaxCeiling)
    /\ on_agent_invalid = FALSE
    /\ InitTasks

RetryNext ==
    \/ \E t \in Tasks : try_invoke_start(t)
    \/ \E t \in Tasks : retry_select(t)
    \/ \E t \in Tasks : prompt_lock(t)
    \/ \E t \in Tasks : handle_respond(t)
    \/ \E t \in Tasks : retry_finish(t)
    \/ \E t \in Tasks : retry_backoff(t)
    \/ \E t \in Tasks : retry_return(t)
    \/ \E t \in Tasks : prompt_select(t)
    \/ \E t \in Tasks : prompt_finish(t)

\* Every attempt terminates: the handle answers.  The runtime polls a task
\* that is ready and the sleep's timer fires, so a task takes the step it is
\* ready for; tokio's Mutex hands the lock to its waiters in turn, so a task
\* waiting for the lock gets it if the lock keeps being released.
retry_ready(t) ==
    \/ handle_respond(t)
    \/ retry_finish(t)
    \/ prompt_finish(t)
    \/ retry_backoff(t)
    \/ retry_return(t)

retry_locks(t) == retry_select(t) \/ prompt_lock(t)

RetryFairness ==
    \A t \in Tasks : WF_vars(retry_ready(t)) /\ SF_vars(retry_locks(t))

SpecRetry == RetryInit /\ [][RetryNext]_vars /\ RetryFairness

(***************************************************************************)
(* A pool of two entries, the first with a handle that always succeeds,    *)
(* the second with a handle that always fails, prompted by one task again  *)
(* and again, each call after the one before has returned.                 *)
(***************************************************************************)
MaxStubCeiling == 3
StubCeilings == 1..MaxStubCeiling
\* the task that prompts
Caller == 1

\* the entry whose handle always succeeds, and the one whose always fails
StubOk == 1
StubFail == 2

stub_answers(handle) ==
    IF handle = StubOk THEN {Ok(Content(handle))}
    ELSE {Err(e) : e \in HandleErrors}

StubInit ==
    /\ variant = "RandAgent"
    /\ \E m \in StubCeilings, nm \in Names :
          agents = with_max_failures_and_callback(
                      <<<<1, nm[1], nm[2]>>, <<2, nm[1], nm[2]>>>>, m)
    /\ on_agent_invalid \in BOOLEAN
    /\ InitTasks

\* the task calls prompt or prompt_with_info once more
stub_prompt_select(t) ==
    /\ t = Caller
    /\ \E o \in {"prompt", "prompt_with_info"} : select(t, o)
    /\ UNCHANGED <<calls, retry>>

\* the stub handle answers
stub_respond(t) ==
    /\ pc[t] = "awaiting"
    /\ answer[t] = NoAnswer
    /\ \E a \in stub_answers(agents[agent_index[t]].agent) :
          answer' = [answer EXCEPT ![t] = a]
    /\ UNCHANGED <<retry, variant, agents, on_agent_invalid, lock, pc, op,
                   agent_index, agent_info, calls, cb_count, cb_last, returned>>

StubNext ==
    \/ \E t \in Tasks : stub_prompt_select(t)
    \/ \E t \in Tasks : prompt_lock(t)
    \/ \E t \in Tasks : stub_respond(t)
    \/ \E t \in Tasks : prompt_finish(t)

\* the step selects entry i for the caller
stub_selects(i) == stub_prompt_select(Caller) /\ agent_index'[Caller] = i

\* The caller prompts again and again and every step of a call is taken;
\* the random choice is fair: an entry valid at infinitely many selections
\* is selected at infinitely many of them.
StubFairness ==
    /\ WF_vars(StubNext)
    /\ \A i \in {StubOk, StubFail} : SF_vars(stub_selects(i))

SpecStub == StubInit /\ [][StubNext]_vars /\ StubFairness

\* one caller whose retry_num lets the backoff reach max_delay
MaxBackoffTimes == 8
BackoffRetryNums == {None} \cup {Some(n) : n \in 0..MaxBackoffTimes}

backoff_invoke_start(t) == t = Caller /\ try_invoke_with(t, BackoffRetryNums)

BackoffNext ==
    \/ \E t \in Tasks : backoff_invoke_start(t)
    \/ \E t \in Tasks : retry_select(t)
    \/ \E t \in Tasks : prompt_lock(t)
    \/ \E t \in Tasks : handle_respond(t)
    \/ \E t \in Tasks : retry_finish(t)
    \/ \E t \in Tasks : retry_backoff(t)
    \/ \E t \in Tasks : retry_return(t)

SpecBackoff == RetryInit /\ [][BackoffNext]_vars

(***************************************************************************)
(* Sequential use of a RandAgent: one task prompts, one call at a time,    *)
(* and reset_failures is called between calls.                             *)
(***************************************************************************)
MaxSeqCeiling == 3
MaxSeqCallbacks == 2

SeqInit ==
    /\ variant = "RandAgent"
    /\ \E list \in BuilderLists, m \in 0..MaxSeqCeiling :
          agents = with_max_failures_and_callback(list, m)
    /\ on_agent_invalid \in BOOLEAN
    /\ InitTasks

\* reset_failures called while no call is in progress
seq_reset_failures ==
    /\ \A t \in Tasks : pc[t] = "idle"
    /\ cb_count < MaxSeqCallbacks
    /\ reset_failures

SeqNext ==
    \/ \E t \in Tasks : stub_prompt_select(t)
    \/ \E t \in Tasks : prompt_lock(t)
    \/ \E t \in Tasks : handle_respond(t)
    \/ \E t \in Tasks : prompt_finish(t)
    \/ seq_reset_failures

SpecSeq == SeqInit /\ [][SeqNext]_vars

(***************************************************************************)
(* RandAgentBuilder::simple_builder (simple_rand_builder.rs)               *)
(***************************************************************************)
MaxConfigs == 2

\* ProviderEnum: one variant for each kind of match arm, and OpenAi, whose
\* name has an inner capital
Provider(name) == <<"ProviderEnum", name>>
ProviderEnum ==
    {Provider("Anthropic"), Provider("OpenAi"), Provider("Cohere"),
     Provider("Azure"), Provider("Perplexity"), Provider("Bigmodel")}

\* strum's Display: the name of the variant
to_string(provider) == provider[2]

\* the arms of `match agent_conf.provider`:
\*   "builder"  Client::builder(..).build() matched on Ok / Err
\*   "new"      a provider's Client::new(..), which returns the client itself
\*   "from_url" bigmodel::Client::from_url / new, which `expect` the header
\*              value and the reqwest client
\*   "skip"     no constructor, a log line only
arm(provider) ==
    CASE provider \in {Provider("Anthropic"), Provider("OpenAi")} -> "builder"
      [] provider = Provider("Cohere") -> "new"
      [] provider = Provider("Bigmodel") -> "from_url"
      [] provider \in {Provider("Azure"), Provider("Perplexity")} -> "skip"

\* AgentConfig; `construction` says whether the provider's client can be
\* built from the config's api_key and api_base_url.  Client::new of a "new"
\* arm has no failure in its type, so its configs all construct.
AgentConfigs ==
    {c \in [id : Ids, provider : ProviderEnum, model_name : {"glm-4-flash"},
            construction : {"succeeds", "fails"},
            api_base_url : {None, Some("http://proxy/")},
            system_prompt : {None, Some("own prompt")},
            agent_name : {None, Some("own name")}] :
        arm(c.provider) = "new" => c.construction = "succeeds"}

\* the global_system_prompt argument
GlobalSystemPrompts == {"global prompt"}

\* Option::unwrap_or
unwrap_or(option, default) == IF option = None THEN default ELSE option[1]

\* the endpoint a provider's client has when none is set (for bigmodel,
\* BIGMODEL_API_BASE_URL)
default_base_url(provider) == <<"default endpoint", to_string(provider)>>

\* the endpoint of the client the arm constructs: the "builder" arms call
\* base_url(api_base_url) when it is Some, the bigmodel arm calls from_url
\* when it is Some, the "new" arms never read api_base_url
client_base_url(agent_conf) ==
    CASE arm(agent_conf.provider) \in {"builder", "from_url"} ->
            unwrap_or(agent_conf.api_base_url,
                      default_base_url(agent_conf.provider))
      [] arm(agent_conf.provider) = "new" ->
            default_base_url(agent_conf.provider)

\* client.agent(model_name).name(agent_name).preamble(system_prompt).build()
build_agent(agent_conf, global_system_prompt) ==
    [base_url |-> client_base_url(agent_conf),
     model |-> agent_conf.model_name,
     name |-> unwrap_or(agent_conf.agent_name, "rand agent"),
     preamble |-> unwrap_or(agent_conf.system_prompt, global_system_prompt)]

ConfigLists == UNION {[1..n -> AgentConfigs] : n \in 0..MaxConfigs}

Builder(list) == [kind |-> "Builder", agents |-> list]
\* the thread panicked while handling the k-th config
Panic(k) == [kind |-> "Panic", at |-> k]

\* the for loop over agent_configs, from the k-th config on
\* (the tuples pushed are written <<id, provider, model, agent>>)
RECURSIVE simple_builder_from(_, _, _, _)
simple_builder_from(list, agent_configs, global_system_prompt, k) ==
    IF k > Len(agent_configs) THEN Builder(list)
    ELSE LET agent_conf == agent_configs[k]
             pushed == Append(list, <<agent_conf.id,
                                      to_string(agent_conf.provider),
                                      agent_conf.model_name,
                                      build_agent(agent_conf,
                                                  global_system_prompt)>>)
         IN CASE arm(agent_conf.provider) = "skip" ->
                    simple_builder_from(list, agent_configs,
                                        global_system_prompt, k + 1)
              [] arm(agent_conf.provider) = "builder" ->
                    IF agent_conf.construction = "succeeds"
                    THEN simple_builder_from(pushed, agent_configs,
                                             global_system_prompt, k + 1)
                    ELSE simple_builder_from(list, agent_configs,
                                        global_system_prompt, k + 1)
              [] arm(agent_conf.provider) = "new" ->
                    simple_builder_from(pushed, agent_configs,
                                             global_system_prompt, k + 1)
              [] arm(agent_conf.provider) = "from_url" ->
                    IF agent_conf.construction = "succeeds"
                    THEN simple_builder_from(pushed, agent_configs,
                                             global_system_prompt, k + 1)
                    ELSE Panic(k)

\* RandAgentBuilder::new().simple_builder(agent_configs, ..)
simple_builder(agent_configs, global_system_prompt) ==
    simple_builder_from(<<>>, agent_configs, global_system_prompt, 1)

\* RandAgentBuilder::new(): max_failures is 3
BuilderMaxFailures == 3

\* the ceiling a builder hands to build(): the one set with max_failures(m),
\* or the one new() starts with
builder_max_failures(configured) ==
    IF configured = None THEN BuilderMaxFailures ELSE configured[1]

BuilderCeilings == {None} \cup {Some(m) : m \in Ceilings}

\* either dispatcher, built by its builder with or without max_failures(m)
CeilingInit ==
    /\ \E configured \in BuilderCeilings :
          \/ /\ variant = "RandAgent"
             /\ \E list \in BuilderLists :
                   agents = with_max_failures_and_callback(
                                list, builder_max_failures(configured))
             /\ on_agent_invalid \in BOOLEAN
          \/ /\ variant = "ThreadSafeRandAgent"
             /\ \E list \in ts_BuilderLists :
                   agents = ts_with_max_failures(
                                list, builder_max_failures(configured))
             /\ on_agent_invalid = FALSE
    /\ InitTasks

SpecCeiling == CeilingInit /\ [][Next \/ TSNext]_vars

BuilderInit ==
    /\ variant = "RandAgent"
    /\ agents = <<>>
    /\ on_agent_invalid = FALSE
    /\ InitTasks

\* a task builds a dispatcher from a list of configs: simple_builder, then
\* build() unless the thread panicked
simple_builder_build(t) ==
    /\ returned = None
    /\ \E agent_configs \in ConfigLists, global \in GlobalSystemPrompts :
          LET res == simple_builder(agent_configs, global)
          IN /\ returned' = Returned(t, "simple_builder",
                               [kind |-> res.kind, configs |-> agent_configs,
                                global_system_prompt |-> global,
                                result |-> res], 0, 0)
             /\ agents' = IF res.kind = "Builder"
                          THEN with_max_failures_and_callback(
                                  res.agents, BuilderMaxFailures)
                          ELSE agents
    /\ UNCHANGED <<retry, variant, on_agent_invalid, lock, pc, op,
                   agent_index, agent_info, answer, calls, cb_count, cb_last>>

BuilderNext == \E t \in Tasks : simple_builder_build(t)

SpecBuilder == BuilderInit /\ [][BuilderNext]_vars

(***************************************************************************)
(* The Bigmodel adapter (extra_providers/bigmodel.rs):                     *)
(* CompletionModel::completion builds the request, posts it, and turns the *)
(* HTTP response into a completion response or a CompletionError.          *)
(***************************************************************************)
MaxCompletions == 2

\* what the request is made from: messages that all convert, or a chat
\* history holding a tool result that is not text
CompletionRequests == {"text only", "non-text tool result"}

\* JSON values (serde_json::Value)
JsonObject(fields) == [type |-> "object", fields |-> fields]

\* the choices of a response: none, an assistant message with text, one
\* with tool calls, a user message
ChoiceLists ==
    {<<>>,
     <<JsonObject([role |-> "assistant", content |-> "hello"])>>,
     <<JsonObject([role |-> "assistant", tool_calls |-> <<"get_weather">>])>>,
     <<JsonObject([role |-> "user", content |-> "hello"])>>}

\* an object with every field of CompletionResponse
CompletionJson(choices) ==
    JsonObject([choices |-> choices, created |-> 1, id |-> "id",
                model |-> "glm-4-flash", request_id |-> "rid",
                usage |-> "usage"])
\* the error object {message}
ErrorJson(message) == JsonObject([message |-> message])

\* the values a body can hold: a completion, the error object, an object
\* with the fields of both, an object of neither shape, an array
JsonValues ==
    {CompletionJson(c) : c \in ChoiceLists}
        \cup {ErrorJson("invalid api key"),
              JsonObject([choices |-> <<>>, created |-> 1, id |-> "id",
                          model |-> "glm-4-flash", request_id |-> "rid",
                          usage |-> "usage", message |-> "both"]),
              JsonObject([code |-> 1301]),
              [type |-> "array"]}

\* texts (String): a text that is not JSON, or the text of a JSON value;
\* response bodies and the messages of errors are texts
PlainText(text) == [kind |-> "plain", text |-> text]
JsonText(value) == [kind |-> "json", value |-> value]
Bodies == {PlainText("rate limited")} \cup {JsonText(v) : v \in JsonValues}

Statuses == {200, 201, 400, 500}
\* StatusCode::is_success: 200..=299
is_success(status) == 200 <= status /\ status <= 299

Responses == [kind : {"Response"}, status : Statuses, body : Bodies]
\* send() failed: no response
TransportError == [kind |-> "TransportError"]

\* CompletionError
HttpError == [kind |-> "HttpError"]
ProviderError(message) == [kind |-> "ProviderError", message |-> message]
ResponseError(message) == [kind |-> "ResponseError", message |-> message]
\* the CompletionError `?` makes of a MessageError
MessageConversionError == [kind |-> "RequestError", source |-> "MessageError"]

\* the thread panicked in `expect` with this message
ExpectPanic(message) == [kind |-> "Panic", message |-> message]

\* create_completion_request: Err when a message does not convert
create_completion_request(request) ==
    IF request = "text only" THEN Ok("request")
    ELSE Err(MessageConversionError)

\* response.json::<Value>()
parse_json(body) ==
    IF body.kind = "json" THEN Ok(body.value) ELSE Err("not JSON")

\* serde's derived Deserialize for CompletionResponse and ApiErrorResponse:
\* the value is an object holding every field of the struct
CompletionFields ==
    {"choices", "created", "id", "model", "request_id", "usage"}
is_CompletionResponse(value) ==
    value.type = "object" /\ CompletionFields \subseteq DOMAIN value.fields
is_ApiErrorResponse(value) ==
    value.type = "object" /\ "message" \in DOMAIN value.fields

\* serde_json::from_value::<ApiResponse<CompletionResponse>>: the untagged
\* enum takes the first variant that deserializes, Ok before Err
from_value(value) ==
    IF is_CompletionResponse(value)
    THEN Ok([variant |-> "Ok", response |-> value.fields])
    ELSE IF is_ApiErrorResponse(value)
    THEN Ok([variant |-> "Err",
             message |-> PlainText(value.fields.message)])
    ELSE Err("data did not match any variant")

\* TryFrom<CompletionResponse> for completion::CompletionResponse
try_into(response) ==
    IF response.choices = <<>>
    THEN Err(ResponseError(PlainText("Response contained no choices")))
    ELSE LET message == response.choices[1].fields
         IN IF message.role # "assistant"
            THEN Err(ResponseError(PlainText(
                    "Chat response does not include an assistant message")))
            ELSE IF "tool_calls" \in DOMAIN message
                 THEN Ok([choice |-> <<"tool_call", message.tool_calls>>,
                          raw_response |-> response])
                 ELSE Ok([choice |-> <<"text", message.content>>,
                          raw_response |-> response])

\* ApiResponse::Err(err) => Err(CompletionError::ProviderError(err.message))
success_error_body(message) == ProviderError(message)

\* Err(CompletionError::ProviderError(response.text().await?))
failure_status(body) == ProviderError(body)

\* the value completion returns for a response
completion_result(response) ==
    IF response.kind = "TransportError" THEN Err(HttpError)
    ELSE IF is_success(response.status)
    THEN LET data == parse_json(response.body)
         IN IF data.kind = "Err" THEN ExpectPanic("api error")
            ELSE LET api == from_value(data.content)
                 IN IF api.kind = "Err"
                    THEN ExpectPanic("deserialize completion response")
                    ELSE IF api.content.variant = "Ok"
                    THEN try_into(api.content.response)
                    ELSE Err(success_error_body(api.content.message))
    ELSE Err(failure_status(response.body))

BigmodelInit ==
    /\ variant = "Bigmodel"
    /\ agents = <<>>
    /\ on_agent_invalid = FALSE
    /\ InitTasks

\* a task calls completion: the request is built (`?` returns its error) and
\* posted; the call waits for send()
completion_call(t) ==
    /\ variant = "Bigmodel"
    /\ pc[t] = "idle"
    /\ calls < MaxCompletions
    /\ calls' = calls + 1
    /\ \E request \in CompletionRequests :
          LET req == create_completion_request(request)
          IN IF req.kind = "Err"
             THEN /\ returned' = Returned(t, "completion", req, 0, 0)
                  /\ UNCHANGED <<pc, op>>
             ELSE /\ pc' = [pc EXCEPT ![t] = "sending"]
                  /\ op' = [op EXCEPT ![t] = "completion"]
                  /\ UNCHANGED returned
    /\ UNCHANGED <<retry, variant, agents, on_agent_invalid, lock,
                   agent_index, agent_info, answer, cb_count, cb_last>>

\* the server's response arrives, or the transport fails
completion_response(t) ==
    /\ variant = "Bigmodel"
    /\ pc[t] = "sending"
    /\ answer[t] = NoAnswer
    /\ \E response \in Responses \cup {TransportError} :
          answer' = [answer EXCEPT ![t] = response]
    /\ UNCHANGED <<retry, variant, agents, on_agent_invalid, lock, pc, op,
                   agent_index, agent_info, calls, cb_count, cb_last, returned>>

\* send() is ready: the rest of completion runs and the call ends
completion_finish(t) ==
    /\ variant = "Bigmodel"
    /\ pc[t] = "sending"
    /\ answer[t] # NoAnswer
    /\ returned' = Returned(t, "completion", completion_result(answer[t]),
                            0, 0)
    /\ pc' = [pc EXCEPT ![t] = "idle"]
    /\ op' = [op EXCEPT ![t] = "none"]
    /\ answer' = [answer EXCEPT ![t] = NoAnswer]
    /\ UNCHANGED <<retry, variant, agents, on_agent_invalid, lock,
                   agent_index, agent_info, calls, cb_count, cb_last>>

BigmodelNext ==
    \/ \E t \in Tasks : completion_call(t)
    \/ \E t \in Tasks : completion_response(t)
    \/ \E t \in Tasks : completion_finish(t)

SpecBigmodel == BigmodelInit /\ [][BigmodelNext]_vars

(***************************************************************************)
(* Vocabulary of the properties                                            *)
(***************************************************************************)
Indices(pool) == 1..Len(pool)
Count(pool, i) == pool[i].info.failure_count
Ceiling(pool, i) == pool[i].info.max_failures
\* I2: an entry is valid iff failure_count < max_failures
EntryValid(pool, i) == Count(pool, i) < Ceiling(pool, i)
NoEntryValid(pool) == \A i \in Indices(pool) : ~EntryValid(pool, i)

\* the step is a selection (the first critical section of a call)
SelectionStep == calls' = calls + 1
\* the step ends task t's handle call with the handle's answer taken
FinishStep(t) ==
    /\ pc[t] = "awaiting" /\ pc'[t] = "idle"
    /\ returned' # None /\ returned'[1].task = t
    /\ returned'[1].value.kind \in {"Ok", "Err"}
\* the step drops task t's future while its handle call is in flight
DropInFlightStep(t) ==
    /\ pc[t] = "awaiting" /\ pc'[t] = "idle"
    /\ returned' # None /\ returned'[1].task = t
    /\ returned'[1].value.kind = "Dropped"

(***************************************************************************)
(* C1. In every state failure_stats / get_agents_info can observe (the    *)
(* pool mutex is free), every entry has 0 <= failure_count <=              *)
(* max_failures.                                                           *)
(***************************************************************************)
C1_CounterWithinCeiling ==
    lock = NoTask =>
        \A i \in Indices(agents) :
            LET stat == failure_stats(agents)[i]
            IN 0 <= stat[2] /\ stat[2] <= stat[3]

(***************************************************************************)
(* C2. No task holds the pool mutex while its handle's prompt future is    *)
(* awaited.                                                                *)
(***************************************************************************)
C2_LockFreeWhileAwaiting ==
    \A t \in Tasks : pc[t] = "awaiting" => lock # t

(***************************************************************************)
(* C3. With a callback installed, a step invokes the callback exactly once *)
(* for each entry it takes from valid to invalid, with that entry's id,    *)
(* and does not invoke it otherwise (in particular not for a failure       *)
(* recorded on an entry that is already invalid).                          *)
(***************************************************************************)
C3_CallbackOncePerTransition ==
    [][on_agent_invalid =>
        LET crossed == {i \in Indices(agents) :
                          EntryValid(agents, i) /\ ~EntryValid(agents', i)}
        IN /\ cb_count' = cb_count + Cardinality(crossed)
           /\ \A i \in crossed : cb_last' = Some(agents[i].id)]_vars

(***************************************************************************)
(* C4. An entry whose counter has reached max_failures stays invalid until *)
(* reset_failures is called, and no selection returns it while it is       *)
(* invalid.                                                                *)
(***************************************************************************)
C4_InvalidUntilReset ==
    [][/\ \A i \in Indices(agents) :
             (Ceiling(agents, i) > 0 /\ ~EntryValid(agents, i))
                => (~EntryValid(agents', i) \/ reset_failures)
       /\ SelectionStep =>
             \A t \in Tasks :
                (pc[t] = "idle" /\ pc'[t] = "selected")
                   => EntryValid(agents, agent_index'[t])]_vars

(***************************************************************************)
(* C5. A selection returns Some(i) only for an index i of the pool whose   *)
(* entry has failure_count < max_failures in the pool it was computed      *)
(* from, and returns None exactly when the pool has no such entry.         *)
(***************************************************************************)
C5_SelectionOnlyValid ==
    [][SelectionStep =>
        LET chose == {t \in Tasks : pc[t] = "idle" /\ pc'[t] = "selected"}
        IN /\ \A t \in chose :
                 /\ agent_index'[t] \in Indices(agents)
                 /\ EntryValid(agents, agent_index'[t])
           /\ (chose = {}) <=> NoEntryValid(agents)]_vars

\* C5 witness: a task has selected a valid entry of a pool that also holds an
\* invalid one
C5_Witness ==
    \E t \in Tasks :
        /\ pc[t] = "selected"
        /\ EntryValid(agents, agent_index[t])
        /\ \E i \in Indices(agents) : ~EntryValid(agents, i)

(***************************************************************************)
(* C6. When a call returns Ok, the counter of the entry that served it is  *)
(* 0 right after the update, whatever it was before.                       *)
(***************************************************************************)
C6_SuccessResetsCounter ==
    [][\A t \in Tasks :
          (FinishStep(t) /\ returned'[1].value.kind = "Ok")
             => Count(agents', agent_index[t]) = 0]_vars

\* C6 witness: a call returned Ok from an entry whose counter had reached
\* its ceiling
C6_Witness ==
    /\ returned # None
    /\ returned[1].value.kind = "Ok"
    /\ Ceiling(agents, returned[1].index) > 0
    /\ returned[1].before >= Ceiling(agents, returned[1].index)
    /\ Count(agents, returned[1].index) = 0

(***************************************************************************)
(* C7 (as amended). When the selected handle returns an error, the         *)
(* entry's failure_count grows by exactly 1, whatever the kind of error;   *)
(* RandAgent returns the handle's error itself, ThreadSafeRandAgent        *)
(* returns it wrapped in RandAgentError::AgentError.                       *)
(***************************************************************************)
AnyCount(pool, i) ==
    IF variant = "RandAgent" THEN pool[i].info.failure_count
    ELSE pool[i].failure_count

\* the step ends task t's call on an error of the handle
HandleErrorStep(t) ==
    /\ pc[t] = "awaiting" /\ pc'[t] = "idle"
    /\ answer[t] # NoAnswer /\ answer[t].kind = "Err"
    /\ returned' # None /\ returned'[1].task = t
    /\ returned'[1].value.kind # "Dropped"

C7_ErrorCountedAndReturned ==
    [][\A t \in Tasks :
          HandleErrorStep(t) =>
             /\ AnyCount(agents', agent_index[t])
                   = AnyCount(agents, agent_index[t]) + 1
             /\ returned'[1].value =
                   IF variant = "RandAgent"
                   THEN [kind |-> "Err", err |-> answer[t].err]
                   ELSE [kind |-> "Err",
                         err |-> [kind |-> "AgentError",
                                  source |-> answer[t].err]]]_vars

\* C7 witness: a ThreadSafeRandAgent call returned a wrapped handle error and
\* the entry, already at its ceiling, was counted once more
C7_Witness ==
    /\ variant = "ThreadSafeRandAgent"
    /\ returned # None
    /\ returned[1].value.kind = "Err"
    /\ returned[1].value.err.kind = "AgentError"
    /\ returned[1].value.err.source \in HandleErrors
    /\ returned[1].before >= agents[returned[1].index].max_failures
    /\ agents[returned[1].index].failure_count = returned[1].before + 1

\* C7 as stated: on a handle error the counter grows by 1 and both
\* dispatchers return the handle's very error, unchanged
C7_ErrorReturnedVerbatim ==
    [][\A t \in Tasks :
          HandleErrorStep(t) =>
             /\ AnyCount(agents', agent_index[t])
                   = AnyCount(agents, agent_index[t]) + 1
             /\ returned'[1].value = [kind |-> "Err", err |-> answer[t].err]]_vars

(***************************************************************************)
(* C8. A call that finds no valid entry (empty pool, or all entries        *)
(* invalid) returns MaxDepthError with max_depth 0, an empty chat history  *)
(* and the prompt text of the source, and starts no handle call.           *)
(***************************************************************************)
C8_NoValidAgentError ==
    [][(SelectionStep /\ NoEntryValid(agents)) =>
          /\ returned' # None
          /\ returned'[1].op \in {"prompt", "prompt_with_info"}
          /\ returned'[1].value =
                [kind |-> "Err",
                 err |-> [kind |-> "MaxDepthError", max_depth |-> 0,
                          chat_history |-> <<>>,
                          prompt |-> NoValidAgentText]]
          /\ pc' = pc]_vars

\* C8 witness: prompt_with_info returned the error on a pool whose entries
\* are all invalid
C8_Witness ==
    /\ returned # None
    /\ returned[1].op = "prompt_with_info"
    /\ returned[1].value.kind = "Err"
    /\ returned[1].value.err.kind = "MaxDepthError"
    /\ \E i \in Indices(agents) : Ceiling(agents, i) > 0
    /\ NoEntryValid(agents)

\* C8 as stated: the error returned when no entry is valid is MaxDepthError
\* with max_depth 0, an empty history and the prompt text "no valid agent"
C8_EnglishPromptText ==
    [][(SelectionStep /\ NoEntryValid(agents)) =>
          /\ returned' # None
          /\ returned'[1].value =
                [kind |-> "Err",
                 err |-> [kind |-> "MaxDepthError", max_depth |-> 0,
                          chat_history |-> <<>>,
                          prompt |-> EnglishNoValidAgentText]]]_vars

(***************************************************************************)
(* C9. Dropping the future while the handle call is in flight changes no   *)
(* entry's counter and does not invoke the callback.                       *)
(***************************************************************************)
C9_DropChangesNoCounter ==
    [][\A t \in Tasks :
          DropInFlightStep(t) =>
             /\ Len(agents') = Len(agents)
             /\ \A i \in Indices(agents) :
                   Count(agents', i) = Count(agents, i)
             /\ cb_count' = cb_count
             /\ cb_last' = cb_last]_vars

\* C9 witness: a future was dropped in flight on an entry that had failed
\* before, and the entry's counter is what it was
C9_Witness ==
    /\ returned # None
    /\ returned[1].value = Dropped("awaiting")
    /\ returned[1].before > 0
    /\ Count(agents, returned[1].index) = returned[1].before

(***************************************************************************)
(* C10. Two calls that selected distinct entries can await their handles   *)
(* at the same time: while one is awaiting, the other can start awaiting.  *)
(***************************************************************************)
C10_DistinctEntriesInFlightTogether ==
    \A t1, t2 \in Tasks :
        (/\ pc[t1] = "awaiting"
         /\ pc[t2] = "selected"
         /\ agent_index[t1] # agent_index[t2])
           => ENABLED prompt_lock(t2)

(***************************************************************************)
(* C11. A pool-management operation of RandAgent that a task has called    *)
(* always completes, also while a prompt call is in flight against a       *)
(* handle that never responds.                                             *)
(***************************************************************************)
C11_PoolOperationsComplete ==
    \A t \in Tasks : (pc[t] = "locking") ~> (pc[t] = "idle")

(***************************************************************************)
(* C12. Counter updates are atomic per entry: a step changes an entry's    *)
(* counter only by ending a call served by that entry or by resetting, and *)
(* each call that ends on a handle error adds exactly 1 to the counter as  *)
(* it is at that moment, so that n such calls served concurrently by one   *)
(* entry add exactly n.                                                    *)
(***************************************************************************)
AnyCeiling(pool, i) ==
    IF variant = "RandAgent" THEN pool[i].info.max_failures
    ELSE pool[i].max_failures

C12_CounterUpdatesAtomic ==
    [][\A i \in Indices(agents) :
          LET errs == {t \in Tasks : HandleErrorStep(t) /\ agent_index[t] = i}
              oks == {t \in Tasks : /\ FinishStep(t)
                                    /\ returned'[1].value.kind = "Ok"
                                    /\ agent_index[t] = i}
          IN (oks = {} /\ ~reset_failures /\ ~ts_reset_failures)
                => AnyCount(agents', i)
                      = AnyCount(agents, i) + Cardinality(errs)]_vars

\* C12 witness: exactly two calls were made, both were served by the only
\* entry, whose ceiling of 1 lets it be selected only at count 0 (so the two
\* calls were in flight together), both ended on a handle error, and the
\* counter is 2
C12_Witness ==
    /\ calls = 2
    /\ \A t \in Tasks : pc[t] = "idle"
    /\ Len(agents) = 1
    /\ AnyCeiling(agents, 1) = 1
    /\ AnyCount(agents, 1) = 2
    /\ returned # None
    /\ returned[1].value.kind = "Err"
    /\ returned[1].index = 1
    /\ returned[1].before = 1

(***************************************************************************)
(* C13. try_invoke_with_retry and try_invoke_with_info_retry terminate     *)
(* when every attempt terminates.  They return the value of the first      *)
(* attempt that succeeds, or, when the attempt cap (max_times + 1 closure  *)
(* calls) is reached without a success, the error of the last attempt,     *)
(* carried by a RandAgentError; no attempt is made after a success.        *)
(***************************************************************************)
\* task t's driver before the step
Driver(t) == retry[t][1]
\* the step is a closure call of task t's driver
AttemptStep(t) ==
    /\ retry[t] # None /\ retry'[t] # None
    /\ retry'[t][1].tries = Driver(t).tries + 1
\* the step is the return of task t's retry operation
RetryReturnStep(t) == retry[t] # None /\ retry'[t] = None

C13_RetryTerminatesWithFirstOkOrLastErr ==
    /\ [][\A t \in Tasks :
            /\ AttemptStep(t) =>
                  /\ Driver(t).last = [kind |-> "None"]
                  /\ Driver(t).tries <= Driver(t).max_times
            /\ (retry[t] # None /\ Driver(t).last.kind = "Ok") =>
                  (retry'[t] = retry[t] \/ RetryReturnStep(t))
            /\ (/\ retry[t] # None /\ retry'[t] # None
                /\ Driver(t).last = [kind |-> "None"]
                /\ retry'[t][1].last # [kind |-> "None"]) =>
                  /\ returned' # None
                  /\ returned'[1].task = t
                  /\ returned'[1].op =
                        (IF Driver(t).op = "try_invoke_with_retry"
                         THEN "prompt" ELSE "prompt_with_info")
                  /\ retry'[t][1].last = returned'[1].value
            /\ RetryReturnStep(t) =>
                  /\ returned' # None
                  /\ returned'[1].task = t
                  /\ returned'[1].op = Driver(t).op
                  /\ IF Driver(t).last.kind = "Ok"
                     THEN returned'[1].value = Driver(t).last
                     ELSE /\ Driver(t).last.kind = "Err"
                          /\ Driver(t).tries = Driver(t).max_times + 1
                          /\ returned'[1].value =
                                [kind |-> "Err",
                                 err |-> [kind |-> "AgentError",
                                          source |-> Driver(t).last.err]]]_vars
    /\ \A t \in Tasks : (retry[t] # None) ~> (retry[t] = None)

\* C13 witness: the only call made is a retry operation; an attempt failed
\* (its entry's counter is not 0) and a later attempt succeeded, whose value
\* the operation returned with the serving entry's info
C13_Witness ==
    /\ calls = 1
    /\ returned # None
    /\ returned[1].op = "try_invoke_with_info_retry"
    /\ returned[1].value.kind = "Ok"
    /\ \E i \in Indices(agents) :
          /\ Count(agents, i) > 0
          /\ returned[1].value.info.id # agents[i].id

(***************************************************************************)
(* C14. The retry driver treats the no-valid-agents error like any other:  *)
(* on a pool whose entries are all invalid each attempt ends at once with  *)
(* that error, starts no handle call and changes no counter; the driver    *)
(* goes on until the attempt cap and then returns an error, and no step of *)
(* the driver itself changes the pool.                                     *)
(***************************************************************************)
C14_RetryOnNoValidAgents ==
    [][\A t \in Tasks :
          /\ (AttemptStep(t) /\ NoEntryValid(agents)) =>
                /\ agents' = agents
                /\ pc' = pc
                /\ cb_count' = cb_count
                /\ retry'[t][1].last =
                      [kind |-> "Err",
                       err |-> [kind |-> "MaxDepthError", max_depth |-> 0,
                                chat_history |-> <<>>,
                                prompt |-> NoValidAgentText]]
          /\ (/\ retry[t] # None /\ retry'[t] # retry[t]
              /\ Driver(t).last.kind = "Err"
              /\ Driver(t).last.err.kind = "MaxDepthError") =>
                IF Driver(t).attempts < Driver(t).max_times
                THEN /\ retry'[t] # None
                     /\ retry'[t][1].attempts = Driver(t).attempts + 1
                     /\ retry'[t][1].last = [kind |-> "None"]
                ELSE /\ RetryReturnStep(t)
                     /\ Driver(t).tries = Driver(t).max_times + 1
                     /\ returned'[1].value.kind = "Err"
          /\ (retry'[t] # retry[t] /\ pc' = pc) => agents' = agents]_vars

\* C14 witness: the only call made is try_invoke_with_retry on a pool that
\* became entirely invalid during it, and it returned the no-valid-agents
\* error of its last attempt
C14_Witness ==
    /\ calls = 1
    /\ returned # None
    /\ returned[1].op = "try_invoke_with_retry"
    /\ returned[1].value.kind = "Err"
    /\ returned[1].value.err.kind = "AgentError"
    /\ returned[1].value.err.source.kind = "MaxDepthError"
    /\ Len(agents) > 0
    /\ \A i \in Indices(agents) : Ceiling(agents, i) > 0
    /\ NoEntryValid(agents)

(***************************************************************************)
(* C15. prompt_with_info is observationally identical to prompt: the       *)
(* effect of a call that ends with the handle's answer is determined by    *)
(* the pool, the selected index and the answer alone (same counters, same  *)
(* callback condition, same text or error), whichever of the two was       *)
(* called; in addition, on success prompt_with_info returns an AgentInfo   *)
(* with the id, provider and model of the entry that produced the text.    *)
(***************************************************************************)
C15_PromptWithInfoSameAsPrompt ==
    [][\A t \in Tasks :
          FinishStep(t) =>
             LET i == agent_index[t]
                 a == answer[t]
                 count == IF a.kind = "Ok" THEN 0 ELSE Count(agents, i) + 1
                 fired == /\ a.kind = "Err"
                          /\ on_agent_invalid
                          /\ count >= Ceiling(agents, i)
                 value == returned'[1].value
             IN /\ returned'[1].op \in {"prompt", "prompt_with_info"}
                /\ Len(agents') = Len(agents)
                /\ \A j \in Indices(agents) :
                      /\ Count(agents', j) = IF j = i THEN count
                                             ELSE Count(agents, j)
                      /\ Ceiling(agents', j) = Ceiling(agents, j)
                      /\ agents'[j].id = agents[j].id
                /\ cb_count' = IF fired THEN cb_count + 1 ELSE cb_count
                /\ cb_last' = IF fired THEN <<agents[i].id>> ELSE cb_last
                /\ value.kind = a.kind
                /\ a.kind = "Err" => value = a
                /\ a.kind = "Ok" =>
                      /\ value.content = a.content
                      /\ a.content = <<"ok", agents[i].agent>>
                      /\ IF returned'[1].op = "prompt" THEN value = a
                         ELSE /\ "info" \in DOMAIN value
                              /\ value.info.id = agents[i].info.id
                              /\ value.info.provider = agents[i].info.provider
                              /\ value.info.model = agents[i].info.model]_vars

\* C15 witness: prompt_with_info returned the text of the second entry of a
\* pool whose entries have different ids, with that entry's id
C15_Witness ==
    /\ returned # None
    /\ returned[1].op = "prompt_with_info"
    /\ returned[1].value.kind = "Ok"
    /\ returned[1].index = 2
    /\ agents[1].id # agents[2].id
    /\ returned[1].value.content = <<"ok", 2>>
    /\ returned[1].value.info.id = agents[2].id

(***************************************************************************)
(* C16. get_agent_by_id(id) returns Some exactly when the pool holds an    *)
(* entry with that id, and then the earliest-inserted such entry, also     *)
(* when several entries share the id and whether or not the entry is       *)
(* valid; the lookup leaves the pool as it is.                             *)
(***************************************************************************)
\* the step is the critical section of task t's pool operation o
PoolOpStep(t, o) ==
    /\ pc[t] = "locking" /\ pc'[t] = "idle"
    /\ op[t] = o
    /\ returned' # None /\ returned'[1].task = t /\ returned'[1].op = o

C16_GetByIdFirstMatch ==
    [][\A t \in Tasks :
          PoolOpStep(t, "get_agent_by_id") =>
             LET id == returned'[1].value.args[1]
                 res == returned'[1].value.value
                 m == {i \in Indices(agents) : agents[i].info.id = id}
             IN /\ agents' = agents
                /\ (res # <<>>) <=> (m # {})
                /\ m # {} =>
                      \E i \in m : /\ \A j \in m : i <= j
                                   /\ res = <<agents[i]>>]_vars

\* C16 witness: two different entries share the id asked for, the first of
\* them is invalid, and the lookup returned the first
C16_Witness ==
    /\ returned # None
    /\ returned[1].op = "get_agent_by_id"
    /\ Len(agents) = 2
    /\ agents[1].info.id = returned[1].value.args[1]
    /\ agents[2].info.id = returned[1].value.args[1]
    /\ agents[1].info.provider # agents[2].info.provider
    /\ ~EntryValid(agents, 1)
    /\ EntryValid(agents, 2)
    /\ returned[1].value.value = <<agents[1]>>

(***************************************************************************)
(* C17. get_agent_by_name(provider, model) returns the first entry in      *)
(* insertion order whose provider and model both equal the arguments, and  *)
(* None when no entry matches both; an entry that matches only one of the  *)
(* two is never returned.                                                  *)
(***************************************************************************)
C17_GetByNameFirstMatch ==
    [][\A t \in Tasks :
          PoolOpStep(t, "get_agent_by_name") =>
             LET provider_name == returned'[1].value.args[1]
                 model_name == returned'[1].value.args[2]
                 res == returned'[1].value.value
                 m == {i \in Indices(agents) :
                          /\ agents[i].info.provider = provider_name
                          /\ agents[i].info.model = model_name}
             IN /\ agents' = agents
                /\ (res # <<>>) <=> (m # {})
                /\ m # {} =>
                      \E i \in m : /\ \A j \in m : i <= j
                                   /\ res = <<agents[i]>>]_vars

\* C17 witness: the first entry has the provider asked for but another
\* model, the second entry has both, and the lookup returned the second
C17_Witness ==
    /\ returned # None
    /\ returned[1].op = "get_agent_by_name"
    /\ Len(agents) = 2
    /\ agents[1].info.provider = returned[1].value.args[1]
    /\ agents[1].info.model # returned[1].value.args[2]
    /\ agents[2].info.provider = returned[1].value.args[1]
    /\ agents[2].info.model = returned[1].value.args[2]
    /\ returned[1].value.value = <<agents[2]>>

(***************************************************************************)
(* C18. reset_failures sets every entry's failure_count to 0 in one        *)
(* critical section and changes nothing else: failure_stats right after it *)
(* gives one tuple per entry with count 0 and the entry's unchanged        *)
(* ceiling, and a second reset_failures changes nothing.                   *)
(***************************************************************************)
C18_ResetZeroesEveryCounter ==
    [][(reset_failures \/ ts_reset_failures) =>
          LET stats == IF variant = "RandAgent" THEN failure_stats(agents')
                       ELSE ts_failure_stats(agents')
              again == IF variant = "RandAgent" THEN reset_all(agents')
                       ELSE ts_reset_all(agents')
          IN /\ Len(stats) = Len(agents)
             /\ \A i \in Indices(agents) :
                   /\ stats[i] = <<i, 0, AnyCeiling(agents, i)>>
                   /\ IF variant = "RandAgent"
                      THEN agents[i] =
                              [agents'[i] EXCEPT !.info.failure_count =
                                                    agents[i].info.failure_count]
                      ELSE agents[i] =
                              [agents'[i] EXCEPT !.failure_count =
                                                    agents[i].failure_count]
             /\ again = agents'
             /\ UNCHANGED <<variant, on_agent_invalid, lock, pc, op,
                            agent_index, agent_info, answer, calls, cb_count,
                            cb_last, returned, retry>>]_vars

\* C18 witness: the latest call to end failed on an entry, which raised its
\* counter above 0, and every counter is 0 now: reset_failures ran since
C18_Witness ==
    /\ returned # None
    /\ returned[1].value.kind = "Err"
    /\ returned[1].index >= 1
    /\ AnyCeiling(agents, returned[1].index) > 0
    /\ Len(agents) = 2
    /\ \A i \in Indices(agents) : AnyCount(agents, i) = 0

(***************************************************************************)
(* C19. With one entry that always succeeds and one that always fails,     *)
(* under repeated sequential prompts and fair random selection, the        *)
(* failing entry is eventually invalid; once it is, it stays invalid,      *)
(* every selection returns the succeeding entry and every call returns Ok  *)
(* with that entry's text.                                                 *)
(***************************************************************************)
C19_FailingEntryInvalidatedThenOnlyOk ==
    /\ <>(Count(agents, 2) >= Ceiling(agents, 2))
    /\ [][Count(agents, 2) >= Ceiling(agents, 2) =>
            /\ Count(agents', 2) >= Ceiling(agents', 2)
            /\ \A t \in Tasks :
                  /\ (pc[t] = "idle" /\ pc'[t] # "idle") =>
                        (pc'[t] = "selected" /\ agent_index'[t] = 1)
                  /\ FinishStep(t) =>
                        /\ agent_index[t] = 1
                        /\ returned'[1].value.kind = "Ok"
                        /\ returned'[1].value.content = <<"ok", 1>>]_vars

\* C19 witness: the failing entry has reached a ceiling of 3 and a later
\* prompt was served by the succeeding entry
C19_Witness ==
    /\ Ceiling(agents, 2) = 3
    /\ Count(agents, 2) = 3
    /\ EntryValid(agents, 1)
    /\ returned # None
    /\ returned[1].index = 1
    /\ returned[1].value.kind = "Ok"

(***************************************************************************)
(* C20. simple_builder never fails and never aborts on a bad entry: for    *)
(* any list of configs it returns a builder whose agent list holds, in     *)
(* config order and with their id, provider tag and model name, exactly    *)
(* the configs whose provider has a constructor and whose client           *)
(* construction succeeded; the others are skipped.                         *)
(***************************************************************************)
\* the configs of a list that have a constructor and whose client is built
RECURSIVE KeptConfigs(_, _)
KeptConfigs(agent_configs, k) ==
    IF k > Len(agent_configs) THEN <<>>
    ELSE (IF /\ agent_configs[k].provider[2] \notin {"Azure", "Perplexity"}
             /\ agent_configs[k].construction = "succeeds"
          THEN <<k>>
          ELSE <<>>) \o KeptConfigs(agent_configs, k + 1)

C20_SimpleBuilderSkipsBadEntries ==
    (returned # None /\ returned[1].op = "simple_builder") =>
        LET agent_configs == returned[1].value.configs
            kept == KeptConfigs(agent_configs, 1)
        IN /\ returned[1].value.kind = "Builder"
           /\ Len(returned[1].value.result.agents) = Len(kept)
           /\ \A n \in 1..Len(kept) :
                 LET pushed == returned[1].value.result.agents[n]
                 IN /\ pushed[1] = agent_configs[kept[n]].id
                    /\ pushed[2] = agent_configs[kept[n]].provider[2]
                    /\ pushed[3] = agent_configs[kept[n]].model_name

(***************************************************************************)
(* C21. For every provider that simple_builder constructs, the agent built *)
(* from a config has the config's api_base_url as its client's endpoint    *)
(* when one is supplied, the global system prompt as preamble when the     *)
(* config has no system_prompt, and the name "rand agent" when the config  *)
(* has no agent_name.                                                      *)
(***************************************************************************)
C21_ConfigDefaultsAndOverrides ==
    (/\ returned # None /\ returned[1].op = "simple_builder"
     /\ returned[1].value.kind = "Builder") =>
        LET agent_configs == returned[1].value.configs
            kept == KeptConfigs(agent_configs, 1)
            pushed == returned[1].value.result.agents
        IN \A n \in 1..Len(pushed) :
              LET conf == agent_configs[kept[n]]
                  agent == pushed[n][4]
              IN /\ conf.api_base_url # <<>> =>
                       agent.base_url = conf.api_base_url[1]
                 /\ agent.preamble =
                       IF conf.system_prompt = <<>>
                       THEN returned[1].value.global_system_prompt
                       ELSE conf.system_prompt[1]
                 /\ agent.name = IF conf.agent_name = <<>> THEN "rand agent"
                                 ELSE conf.agent_name[1]

(***************************************************************************)
(* C22. The Bigmodel adapter's completion never panics on a response it    *)
(* received: for every status and every body it returns a completion       *)
(* response or a typed CompletionError.                                    *)
(***************************************************************************)
C22_CompletionNeverPanics ==
    (returned # None /\ returned[1].op = "completion") =>
        returned[1].value.kind \in {"Ok", "Err"}

(***************************************************************************)
(* C23. For a non-2xx response the adapter returns ProviderError(message), *)
(* where message is the body when the body is plain text and the value of  *)
(* the message field when the body is the JSON object {message}; an error  *)
(* body {message} delivered with a 2xx status gives ProviderError(message) *)
(* too.                                                                    *)
(***************************************************************************)
\* the step ends task t's completion call on the response it received
CompletionFinishStep(t) ==
    /\ pc[t] = "sending" /\ pc'[t] = "idle"
    /\ answer[t].kind = "Response"
    /\ returned' # None /\ returned'[1].task = t
    /\ returned'[1].op = "completion"

\* the body is the text of a JSON object whose only field is message
IsErrorBody(body) ==
    /\ body.kind = "json"
    /\ body.value.type = "object"
    /\ DOMAIN body.value.fields = {"message"}

C23_ErrorBodySurfacedAsProviderError ==
    [][\A t \in Tasks :
          CompletionFinishStep(t) =>
             LET status == answer[t].status
                 body == answer[t].body
                 value == returned'[1].value
                 provider_error(m) ==
                    [kind |-> "Err",
                     err |-> [kind |-> "ProviderError", message |-> m]]
             IN /\ (~(200 <= status /\ status <= 299) /\ body.kind = "plain")
                      => value = provider_error(body)
                /\ IsErrorBody(body)
                      => value = provider_error(
                            [kind |-> "plain",
                             text |-> body.value.fields.message])]_vars

(***************************************************************************)
(* C25. The index chosen at selection stays usable for the whole call:     *)
(* while a call of prompt / prompt_with_info is past its selection, under  *)
(* every interleaving with add_agent, add_agent_with_max_failures,         *)
(* reset_failures and other prompts, its index is within the pool vector   *)
(* and denotes the same entry (same id, provider, model, handle) as at     *)
(* selection.                                                              *)
(***************************************************************************)
\* what identifies the entry stored at i
Identity(pool, i) ==
    IF variant = "RandAgent"
    THEN <<pool[i].id, pool[i].info.id, pool[i].info.provider,
           pool[i].info.model, pool[i].agent>>
    ELSE <<pool[i].provider, pool[i].model, pool[i].agent>>

InCall(pcs, t) == pcs[t] \in {"selected", "awaiting"}

C25_SelectedIndexStaysUsable ==
    [][\A t \in Tasks :
          InCall(pc', t) =>
             /\ agent_index'[t] \in 1..Len(agents')
             /\ InCall(pc, t) =>
                   /\ agent_index'[t] = agent_index[t]
                   /\ agent_index[t] \in 1..Len(agents)
                   /\ Identity(agents', agent_index[t])
                         = Identity(agents, agent_index[t])]_vars

\* C25 witness: both tasks are inside a call, one about to re-acquire the
\* lock and one awaiting its handle, they use different entries, and the
\* second entry was registered by add_agent
C25_Witness ==
    /\ variant = "RandAgent"
    /\ Len(agents) = 2
    /\ agents[2].info.max_failures = 3
    /\ \E t1, t2 \in Tasks :
          /\ pc[t1] = "awaiting" /\ agent_index[t1] = 2
          /\ pc[t2] = "selected" /\ agent_index[t2] = 1

(***************************************************************************)
(* C27. The invalidation callback is fired only from the failure path of   *)
(* prompt / prompt_with_info, once per step, with the id of the entry      *)
(* whose failure that step recorded, and only when that entry is invalid   *)
(* after the update; a successful call, the no-valid-agents outcome,       *)
(* reset_failures and add_agent never fire it, and it is never fired for   *)
(* an entry that is still valid.                                           *)
(***************************************************************************)
CallbackFired == cb_count' # cb_count \/ cb_last' # cb_last

C27_CallbackOnlyOnInvalidatingFailure ==
    [][CallbackFired =>
          \E t \in Tasks :
             /\ HandleErrorStep(t)
             /\ returned'[1].op \in {"prompt", "prompt_with_info"}
             /\ on_agent_invalid
             /\ Count(agents', agent_index[t])
                   = Count(agents, agent_index[t]) + 1
             /\ ~EntryValid(agents', agent_index[t])
             /\ cb_count' = cb_count + 1
             /\ cb_last' = <<agents[agent_index[t]].info.id>>]_vars

\* C27 witness: the callback fired for the second entry, which is invalid,
\* at the third failure in a row of an entry with ceiling 3, while the
\* first entry, with another id, is valid
C27_Witness ==
    /\ cb_count = 1
    /\ Len(agents) = 2
    /\ agents[1].info.id # agents[2].info.id
    /\ cb_last = <<agents[2].info.id>>
    /\ Ceiling(agents, 2) = 3
    /\ Count(agents, 2) = 3
    /\ EntryValid(agents, 1)
    /\ returned # None
    /\ returned[1].value.kind = "Err"
    /\ returned[1].index = 2

(***************************************************************************)
(* C28. The invalidation callback runs while the calling task holds the    *)
(* pool lock, in the same critical section as the counter increment that   *)
(* invalidated the entry: the step that fires it is a step of the task     *)
(* holding the lock, it is the step that increments the counter, and no    *)
(* other task reads or modifies the pool in between.                       *)
(***************************************************************************)
C28_CallbackUnderLock ==
    [][CallbackFired =>
          \E t \in Tasks :
             /\ lock = t
             /\ pc[t] = "awaiting"
             /\ Count(agents', agent_index[t])
                   = Count(agents, agent_index[t]) + 1
             /\ \A u \in Tasks \ {t} :
                   /\ pc'[u] = pc[u]
                   /\ agent_index'[u] = agent_index[u]
                   /\ agent_info'[u] = agent_info[u]]_vars

\* C28 witness: the callback has fired for a task's call while the other
\* task, which had selected the same entry, was waiting for the lock
C28_Witness ==
    /\ cb_count = 1
    /\ returned # None
    /\ returned[1].value.kind = "Err"
    /\ lock = NoTask
    /\ \E u \in Tasks :
          /\ u # returned[1].task
          /\ pc[u] = "selected"
          /\ agent_index[u] = returned[1].index
          /\ cb_last = <<agents[agent_index[u]].info.id>>

(***************************************************************************)
(* C29. A completed prompt / prompt_with_info call changes at most the     *)
(* failure_count of the one entry it selected: the counters of the other   *)
(* entries, the id, provider, model, max_failures and handle of every      *)
(* entry, and the number and order of the entries are unchanged, in both   *)
(* dispatchers and at every step of the call.                              *)
(***************************************************************************)
\* the entry with its counter set to c
WithCount(state, c) ==
    IF variant = "RandAgent" THEN [state EXCEPT !.info.failure_count = c]
    ELSE [state EXCEPT !.failure_count = c]

\* the step is a step of task t's prompt call
PromptStep(t) ==
    \/ SelectionStep /\ pc'[t] = "selected" /\ pc[t] = "idle"
    \/ pc[t] = "selected" /\ pc'[t] = "awaiting"
    \/ FinishStep(t)

C29_PromptChangesOnlySelectedCounter ==
    [][\A t \in Tasks :
          PromptStep(t) =>
             /\ Len(agents') = Len(agents)
             /\ \A j \in Indices(agents) :
                   IF FinishStep(t) /\ j = agent_index[t]
                   THEN agents'[j] = WithCount(agents[j], AnyCount(agents', j))
                   ELSE agents'[j] = agents[j]]_vars

\* C29 witness: a call served by the first entry succeeded and reset its
\* counter while the second entry, which has failed before, kept its count
C29_Witness ==
    /\ returned # None
    /\ returned[1].value.kind = "Ok"
    /\ returned[1].index = 1
    /\ returned[1].before > 0
    /\ Len(agents) = 2
    /\ AnyCount(agents, 1) = 0
    /\ AnyCount(agents, 2) > 0

(***************************************************************************)
(* C30. A prompt call that finds no valid entry has no effect: in both     *)
(* dispatchers it starts no handle call, changes no counter, fires no      *)
(* callback and returns at once with the no-valid-agents error, which is   *)
(* RandAgentError::NoValidAgents in ThreadSafeRandAgent.                   *)
(***************************************************************************)
AnyNoEntryValid(pool) ==
    \A i \in Indices(pool) : AnyCount(pool, i) >= AnyCeiling(pool, i)

C30_NoValidEntryNoEffect ==
    [][(SelectionStep /\ AnyNoEntryValid(agents)) =>
          /\ agents' = agents
          /\ pc' = pc
          /\ answer' = answer
          /\ agent_index' = agent_index
          /\ lock' = lock
          /\ cb_count' = cb_count
          /\ cb_last' = cb_last
          /\ returned' # None
          /\ returned'[1].value.kind = "Err"
          /\ variant = "ThreadSafeRandAgent" =>
                returned'[1].value.err = [kind |-> "NoValidAgents"]
          /\ variant = "RandAgent" =>
                returned'[1].value.err.kind = "MaxDepthError"]_vars

\* C30 witness: a ThreadSafeRandAgent whose two entries have both failed up
\* to their ceiling answered a prompt with NoValidAgents
C30_Witness ==
    /\ variant = "ThreadSafeRandAgent"
    /\ Len(agents) = 2
    /\ \A i \in Indices(agents) :
          agents[i].max_failures > 0
          /\ agents[i].failure_count >= agents[i].max_failures
    /\ \A t \in Tasks : pc[t] = "idle"
    /\ returned # None
    /\ returned[1].value = [kind |-> "Err", err |-> [kind |-> "NoValidAgents"]]

NumValid(pool) == Cardinality({i \in Indices(pool) : EntryValid(pool, i)})

C31_LenTotalLenIsEmpty ==
    /\ [](/\ len(agents) = NumValid(agents)
          /\ total_len(agents) = Len(agents)
          /\ len(agents) <= total_len(agents)
          /\ is_empty(agents) <=> (len(agents) = 0))
    /\ [][/\ total_len(agents') >= total_len(agents)
          /\ \A t \in Tasks :
                /\ PoolOpStep(t, "len") =>
                      returned'[1].value.value = NumValid(agents)
                /\ PoolOpStep(t, "total_len") =>
                      returned'[1].value.value = Len(agents)
                /\ PoolOpStep(t, "is_empty") =>
                      (returned'[1].value.value <=> NumValid(agents) = 0)]_vars

\* C31 witness: is_empty returned true on a pool that holds an entry, which
\* has failed up to its ceiling
C31_Witness ==
    /\ returned # None
    /\ returned[1].op = "is_empty"
    /\ returned[1].value.value = TRUE
    /\ Len(agents) > 0
    /\ \A i \in Indices(agents) :
          Ceiling(agents, i) > 0 /\ Count(agents, i) >= Ceiling(agents, i)

(***************************************************************************)
(* C32. ThreadSafeRandAgent::prompt holds the mutex only inside its three  *)
(* short blocks (select, clone, update) and never while the handle future  *)
(* is awaited: no task holds the mutex in a state where a handle call is   *)
(* in flight, the handle calls of several tasks are in flight together,    *)
(* and no block of a task waits for the handle call of another task.       *)
(***************************************************************************)
C32_MutexFreeAcrossHandleCall ==
    \A t \in Tasks :
        /\ lock # t
        /\ (pc[t] = "idle" /\ calls < MaxCalls) => ENABLED ts_prompt_select(t)
        /\ pc[t] = "selected" => ENABLED ts_prompt_clone(t)
        /\ (pc[t] = "awaiting" /\ answer[t] # NoAnswer)
              => ENABLED ts_prompt_finish(t)

\* C32 witness: every task is awaiting the handle of the same entry at once
C32_Witness ==
    /\ variant = "ThreadSafeRandAgent"
    /\ \A t \in Tasks : pc[t] = "awaiting" /\ agent_index[t] = 1

(***************************************************************************)
(* C33. For a ThreadSafeRandAgent shared by several tasks, failure_count   *)
(* never exceeds max_failures in any state that failure_stats reports,     *)
(* also when several prompts that selected the same entry while it was     *)
(* valid fail after it reached its ceiling.                                *)
(***************************************************************************)
C33_TSCounterWithinCeiling ==
    variant = "ThreadSafeRandAgent" =>
        \A i \in Indices(agents) :
            LET stat == ts_failure_stats(agents)[i]
            IN 0 <= stat[2] /\ stat[2] <= stat[3]

(***************************************************************************)
(* C34. With retry_num = Some(n) one call of try_invoke_with_retry or      *)
(* try_invoke_with_info_retry makes at most n + 1 attempts, the first one  *)
(* and at most n retries, each of them one prompt of the dispatcher that   *)
(* records at most one failure: at most n + 1 failures in the pool.        *)
(***************************************************************************)
FailuresFrom(pool, i) ==
    LET sum[k \in i..(Len(pool) + 1)] ==
            IF k > Len(pool) THEN 0 ELSE AnyCount(pool, k) + sum[k + 1]
    IN sum[i]

C34_AtMostRetryNumPlusOneAttempts ==
    /\ [][\A t \in Tasks :
            /\ (AttemptStep(t) /\ Driver(t).retry_num # None) =>
                  retry'[t][1].tries <= Driver(t).retry_num[1] + 1
            /\ (retry[t] # None /\ retry'[t] # None) =>
                  \/ agents' = agents
                  \/ /\ pc[t] = "awaiting" /\ pc'[t] = "idle"
                     /\ \E i \in Indices(agents) :
                           /\ Count(agents', i) \in {0, Count(agents, i) + 1}
                           /\ \A j \in Indices(agents) \ {i} :
                                 agents'[j] = agents[j]
                  \/ \E u \in Tasks \ {t} : pc[u] = "awaiting" /\ pc'[u] = "idle"
         ]_vars
    /\ [](\A t \in Tasks :
            (/\ calls = 1
             /\ retry[t] # None
             /\ Driver(t).retry_num # None) =>
                /\ FailuresFrom(agents, 1) <= Driver(t).tries
                /\ FailuresFrom(agents, 1) <= Driver(t).retry_num[1] + 1)

\* C34 witness: a call with Some(1), alone on the pool, made two attempts and
\* both recorded a failure
C34_Witness ==
    /\ calls = 1
    /\ \E t \in Tasks :
          /\ retry[t] # None
          /\ Driver(t).retry_num = Some(1)
          /\ Driver(t).tries = 2
          /\ Driver(t).last.kind = "Err"
          /\ FailuresFrom(agents, 1) = 2

\* C34 as stated: at most n attempts
C34_AtMostRetryNumAttempts ==
    [][\A t \in Tasks :
          (AttemptStep(t) /\ Driver(t).retry_num # None) =>
              retry'[t][1].tries <= Driver(t).retry_num[1]]_vars

(***************************************************************************)
(* C35. During a retried call the notification hook runs exactly once for  *)
(* each failed attempt that is followed by another attempt, and never      *)
(* after the final attempt; the delays passed to successive notifications  *)
(* never decrease, and grow strictly as long as the previous delay was     *)
(* below the backoff's max_delay of 60 s.                                  *)
(***************************************************************************)
\* the step is a notification of task t's driver
NotifyStep(t) ==
    /\ retry[t] # None /\ retry'[t] # None
    /\ retry'[t][1].notified # Driver(t).notified

\* one notification per failed attempt that is followed by another attempt
NotifiedOncePerRetry(t) ==
    /\ NotifyStep(t) =>
          /\ Driver(t).last.kind = "Err"
          /\ retry'[t][1].notified = Driver(t).notified + 1
          /\ retry'[t][1].tries = Driver(t).tries
          /\ retry'[t][1].current_delay # None
    /\ AttemptStep(t) => Driver(t).notified = Driver(t).tries
    /\ RetryReturnStep(t) => Driver(t).notified = Driver(t).tries - 1

C35_NotifiedPerRetryDelaysGrowToCap ==
    [][\A t \in Tasks :
          /\ NotifiedOncePerRetry(t)
          /\ (NotifyStep(t) /\ Driver(t).current_delay # None) =>
                /\ retry'[t][1].current_delay[1] >= Driver(t).current_delay[1]
                /\ Driver(t).current_delay[1] < MaxDelay =>
                      retry'[t][1].current_delay[1] >
                          Driver(t).current_delay[1]]_vars

\* C35 witness: the eighth notification of a call; the seventh was the first
\* with the delay max_delay
C35_Witness ==
    \E t \in Tasks :
        /\ retry[t] # None
        /\ Driver(t).notified = 8
        /\ Driver(t).current_delay = Some(MaxDelay)
        /\ Driver(t).last = NoAnswer

\* C35 as stated: the delays of successive notifications grow strictly
C35_NotifiedPerRetryDelaysGrow ==
    [][\A t \in Tasks :
          /\ NotifiedOncePerRetry(t)
          /\ (NotifyStep(t) /\ Driver(t).current_delay # None) =>
                retry'[t][1].current_delay[1] >
                    Driver(t).current_delay[1]]_vars

(***************************************************************************)
(* C36. Every attempt of try_invoke_with_retry is a full prompt on the     *)
(* caller's pool: it selects afresh among the entries valid at that        *)
(* moment, a failed attempt increments the counter of the entry it used,   *)
(* and an entry that an earlier attempt of the call invalidated is not     *)
(* used by a later attempt of the same call.                               *)
(***************************************************************************)
C36_AttemptsSelectAfreshOnSharedPool ==
    [][\A t \in Tasks :
          /\ (AttemptStep(t) /\ pc'[t] = "selected") =>
                /\ EntryValid(agents, agent_index'[t])
                /\ agent_index'[t] \notin Driver(t).invalidated
          /\ (AttemptStep(t) /\ pc'[t] = "idle") =>
                /\ NoEntryValid(agents)
                /\ retry'[t][1].last = Err(NoValidAgentError)
          /\ (/\ retry[t] # None
              /\ pc[t] = "awaiting" /\ pc'[t] = "idle"
              /\ returned'[1].value.kind = "Err") =>
                /\ Count(agents', agent_index[t]) =
                      Count(agents, agent_index[t]) + 1
                /\ \A j \in Indices(agents) \ {agent_index[t]} :
                      agents'[j] = agents[j]]_vars

(***************************************************************************)
(* C37. The AgentInfo that a successful prompt_with_info returns is a copy *)
(* of the entry's info taken before the handle is invoked: it carries the  *)
(* failure_count the entry had before the call, not the 0 that             *)
(* record_success stores, and later updates of the entry do not change it. *)
(***************************************************************************)
C37_ReturnedInfoIsCopyBeforeCall ==
    [][/\ \A t \in Tasks :
             (/\ FinishStep(t)
              /\ op[t] = "prompt_with_info"
              /\ returned'[1].value.kind = "Ok") =>
                 /\ returned'[1].value.info = agents[agent_index[t]].info
                 /\ returned'[1].value.info.failure_count = returned'[1].before
                 /\ Count(agents', agent_index[t]) = 0
       /\ (pc' = pc /\ calls' = calls) => returned' = returned]_vars

\* C37 witness: the info returned carries a count above 0 while the entry's
\* counter is 0
C37_Witness ==
    /\ returned # None
    /\ returned[1].op = "prompt_with_info"
    /\ returned[1].value.kind = "Ok"
    /\ returned[1].value.info.failure_count > 0
    /\ Count(agents, returned[1].index) = 0

(***************************************************************************)
(* C38. Every entry starts with failure_count 0.  The entries handed to a  *)
(* builder all get the ceiling set with max_failures(m), 3 when it was not *)
(* set; add_agent gives the new entry the ceiling 3 whatever the pool was  *)
(* built with, add_agent_with_max_failures the ceiling of its argument;    *)
(* the ceiling of an entry never changes after its registration.           *)
(***************************************************************************)
C38_CeilingsFixedAtRegistration ==
    /\ \E m \in {3} \cup Ceilings :
          \A i \in Indices(agents) :
              AnyCount(agents, i) = 0 /\ AnyCeiling(agents, i) = m
    /\ [][/\ Len(agents') >= Len(agents)
          /\ \A i \in Indices(agents) :
                AnyCeiling(agents', i) = AnyCeiling(agents, i)
          /\ Len(agents') # Len(agents) =>
                /\ Len(agents') = Len(agents) + 1
                /\ AnyCount(agents', Len(agents')) = 0
          /\ (\/ \E id \in Ids, nm \in Names : add_agent(id, nm[1], nm[2])
              \/ \E nm \in Names : ts_add_agent(nm[1], nm[2])) =>
                AnyCeiling(agents', Len(agents')) = 3
          /\ \A m \in Ceilings :
                (\/ \E id \in Ids, nm \in Names :
                       add_agent_with_max_failures(id, nm[1], nm[2], m)
                 \/ \E nm \in Names :
                       ts_add_agent_with_max_failures(nm[1], nm[2], m)) =>
                   AnyCeiling(agents', Len(agents')) = m]_vars

\* C38 witness: a pool built with max_failures(1) to which add_agent added an
\* entry; that entry has failed since
C38_Witness ==
    /\ Len(agents) = 2
    /\ AnyCeiling(agents, 1) = 1
    /\ AnyCeiling(agents, 2) = 3
    /\ AnyCount(agents, 2) > 0

(***************************************************************************)
(* C39. An entry registered with max_failures = 0 is never valid: len()    *)
(* does not count it, no selection returns it and its handle is never      *)
(* invoked, neither right after its registration nor after                 *)
(* reset_failures; a pool made only of such entries answers every prompt   *)
(* with the no-valid-agents error.                                         *)
(***************************************************************************)
ZeroCeiling(pool) == {i \in Indices(pool) : Ceiling(pool, i) = 0}

====
